---- MODULE Spec2Model ----
(***************************************************************************)
(* Model of the TikTok publishing client (src/src/tiktok_poster.py):       *)
(* the rate-limit window kept in TikTokPoster.last_init_calls, and the     *)
(* three-phase post_video protocol (init -> upload -> status fetch) with   *)
(* the failure behaviour of _make_request and _upload_video.               *)
(*                                                                         *)
(* Time is a natural number of seconds.  A thread is one caller of the     *)
(* poster's methods; a call is modelled statement by statement so that     *)
(* several threads can interleave inside _rate_limit_check.                *)
(***************************************************************************)
EXTENDS Naturals, Integers, Sequences, FiniteSets, TLC

\* ---------------------------------------------------------------- constants
\* config.TIKTOK_RATE_LIMIT_PER_MINUTE
TIKTOK_RATE_LIMIT_PER_MINUTE == 6
\* config.TIKTOK_RATE_LIMIT_WINDOW (seconds)
TIKTOK_RATE_LIMIT_WINDOW == 60
\* time.sleep(wait_time + 1): the one-second buffer
SLEEP_BUFFER == 1
\* config.MAX_CAPTION_LENGTH (characters of a caption)
MAX_CAPTION_LENGTH == 2200
\* config.TIKTOK_CHUNK_SIZE (bytes): 10 * 1024 * 1024
TIKTOK_CHUNK_SIZE == 10485760
\* config.VIDEO_FPS
VIDEO_FPS == 24
\* config.VIDEO_CRF
VIDEO_CRF == 23
\* config.COUNTDOWN_START
COUNTDOWN_START == 5

\* ------------------------------------------------------------------- bounds
\* calls (post_video and query_creator_info together) made in one run
MaxCalls == 9
\* the clock stops ticking on its own beyond this value (sleeps still end)
MaxTime == 60
\* a sleep may overshoot the requested time by up to this many seconds
MaxOvershoot == 1
\* calls made by the second of two concurrent threads
MaxRacingCalls == 1
\* the largest COUNTDOWN_START a configuration holds
MaxCountdown == 6
\* build_video calls made in one run
MaxBuilds == 2
\* the largest count run_pipeline is called with
MaxPuzzles == 3
\* the number of pipeline runs on one output directory
MaxRuns == 2
\* the longest answer string handed to the answer slide
MaxAnswerLen == 3

\* how far the clock moves in one tick
TickSet == {20}
\* the same, where only the rate limit is looked at: differences of 1, 19,
\* 20, 21, 39, 40, 59 and 60 seconds between two calls occur
FineTickSet == {20, 39}

Threads == {1, 2}
Posters == {1, 2}

NONE == "none"

\* ------------------------------------------------------------------ strings
\* A string is the sequence of its characters; Text(k, n) is a text of n
\* characters over the alphabet {k, k + 1, k + 2}.
Text(k, n) == [i \in 1..n |-> k + (i % 3)]

\* s[:n] of Python, for n >= 0
Slice(s, n) == SubSeq(s, 1, IF n < Len(s) THEN n ELSE Len(s))

\* An optional string argument: None, or a string (which may be empty).
NoString == [given |-> FALSE, text |-> <<>>]
String(s) == [given |-> TRUE, text |-> s]

\* "if title:" and "x or ...": None and the empty string are false
Truthy(str) == str.given /\ Len(str.text) > 0

\* the characters the texts below are made of: " ", "\n", ":", "B", "a", and
\* the sharp s, whose upper case is two characters
SPACE == 32
NEWLINE == 10
COLON == 58
SHARP_S == 223

IsSpace(c) == c \in {SPACE, NEWLINE}

\* str.strip(): leading and trailing whitespace removed
RECURSIVE LStrip(_)
LStrip(s) == IF s # << >> /\ IsSpace(Head(s)) THEN LStrip(Tail(s)) ELSE s

RECURSIVE RStrip(_)
RStrip(s) == IF s # << >> /\ IsSpace(s[Len(s)]) THEN RStrip(SubSeq(s, 1, Len(s) - 1)) ELSE s

Strip(s) == RStrip(LStrip(s))

\* str.upper() of one character: a..z become A..Z, the sharp s becomes "SS"
UpperOf(c) ==
    IF c >= 97 /\ c <= 122 THEN << c - 32 >>
    ELSE IF c = SHARP_S THEN << 83, 83 >>
    ELSE << c >>

\* str.upper()
RECURSIVE Upper(_)
Upper(s) == IF s = << >> THEN << >> ELSE UpperOf(Head(s)) \o Upper(Tail(s))

\* sep in s
Contains(s, sep) == \E i \in 1..Len(s) : s[i] = sep

\* s.split(sep)[0]: what stands before the first sep (all of s without one)
RECURSIVE BeforeFirst(_, _)
BeforeFirst(s, sep) ==
    IF s = << >> \/ Head(s) = sep THEN << >> ELSE << Head(s) >> \o BeforeFirst(Tail(s), sep)

\* all strings over an alphabet up to a length
RECURSIVE StringsUpTo(_, _)
StringsUpTo(alphabet, n) ==
    IF n = 0 THEN { << >> }
    ELSE LET shorter == StringsUpTo(alphabet, n - 1)
         IN  shorter \cup { Append(t, c) : t \in shorter, c \in alphabet }

\* the captions a caller hands over: none, the empty one, and lengths around
\* the limit
TitleLengths == {1, MAX_CAPTION_LENGTH - 1, MAX_CAPTION_LENGTH, MAX_CAPTION_LENGTH + 1, 2300}

\* run_pipeline: caption = (puzzle.question_text or "")[:config.MAX_CAPTION_LENGTH]
PipelineCaption(question_text) ==
    Slice(IF Truthy(question_text) THEN question_text.text ELSE <<>>, MAX_CAPTION_LENGTH)

\* the title argument of post_video: any string or None from another caller,
\* and what run_pipeline passes for a question text
Titles ==
    {NoString, String(<<>>)}
       \cup { String(Text(0, n)) : n \in TitleLengths }
       \cup { String(PipelineCaption(String(Text(0, n)))) : n \in TitleLengths }

\* post_info_overrides: None, or a dict that may hold a "title" among its keys
\* and a number of other keys
NoOverrides == [given |-> FALSE, has_title |-> FALSE, title |-> <<>>, others |-> 0]
Overrides(has, t, n) == [given |-> TRUE, has_title |-> has, title |-> t, others |-> n]

OverridesSet ==
    {NoOverrides, Overrides(FALSE, <<>>, 0), Overrides(FALSE, <<>>, 1),
     Overrides(TRUE, Text(3, 2), 0), Overrides(TRUE, Text(3, MAX_CAPTION_LENGTH + 1), 1)}

\* the size of the video file in bytes, and the chunk size of the poster
VideoSizes ==
    (0..12) \cup { c * TIKTOK_CHUNK_SIZE + d : c \in {1, 5}, d \in {0, 1} }
            \cup {TIKTOK_CHUNK_SIZE - 1}
ChunkSizes == {1, 2, 3, 5, TIKTOK_CHUNK_SIZE}

\* The arguments of one post_video call, with what it reads from its
\* surroundings: the size of the file and the chunk size of the poster.
Args(t, o, vs, cs) == [title |-> t, post_info_overrides |-> o, video_size |-> vs, chunk_size |-> cs]

\* what run_pipeline passes for a short question text and a five-chunk video
PipelineArgs ==
    Args(String(PipelineCaption(String(Text(0, 1)))), NoOverrides, 5 * TIKTOK_CHUNK_SIZE, TIKTOK_CHUNK_SIZE)

\* every caption with every overrides, and every file size with every chunk size
PublishArgs ==
    { Args(t, o, PipelineArgs.video_size, TIKTOK_CHUNK_SIZE) : t \in Titles, o \in OverridesSet }
       \cup { Args(PipelineArgs.title, NoOverrides, vs, cs) : vs \in VideoSizes, cs \in ChunkSizes }

VARIABLES
    clock,            \* time.time()
    last_init_calls,  \* last_init_calls[p]: the list kept by poster p
    pc,               \* pc[th]: where thread th stands
    frame,            \* frame[th]: the locals of the call thread th is in
    reqs,             \* reqs[th]: the HTTP requests the call has sent, in order
    result,           \* result[th]: how the call of thread th ended
    init_log,         \* every timestamp _rate_limit_check recorded, in order
    ncalls,           \* ncalls[th]: calls thread th has started so far
    cfg,              \* the values of the config module the video builder reads
    fs,               \* the files that exist
    build,            \* the build_video call: its position, locals and result
    run,              \* the run_pipeline call: its position, locals and result
    gen               \* the generate_puzzle call: its position, locals and result

\* the publishing client
poster_vars == <<clock, last_init_calls, pc, frame, reqs, result, init_log, ncalls>>

\* the video builder
builder_vars == <<cfg, fs, build>>

vars == <<clock, last_init_calls, pc, frame, reqs, result, init_log, ncalls, cfg, fs, build, run, gen>>

\* ------------------------------------------------------------ HTTP responses
\* The "data" object of a response body; a field that is absent holds NONE.
NoData == [present |-> FALSE, publish_id |-> NONE, upload_url |-> NONE, status |-> NONE]

Data(pid, url, st) == [present |-> TRUE, publish_id |-> pid, upload_url |-> url, status |-> st]

\* What urlopen gives for an API call.  transport: "ok" (a 2xx answer),
\* "HTTPError" (a non-success status) or "URLError" (no answer at all);
\* http: the status code; json: whether the body parses; error: the code of the error envelope
\* (NONE: no envelope, "nocode": an envelope without a code).
Response(tr, http, js, err, d) ==
    [transport |-> tr, http |-> http, json |-> js, error |-> err, data |-> d]

FailedResponses ==
    { Response("URLError", 0, FALSE, NONE, NoData),
      Response("HTTPError", 401, TRUE, "access_token_invalid", NoData),
      Response("HTTPError", 500, FALSE, NONE, NoData),
      Response("ok", 200, FALSE, NONE, NoData) }

\* Envelopes other than code "ok": none at all, one without a code, a failure.
OtherEnvelopes == {NONE, "nocode", "rate_limit_exceeded"}

PublishIds == {"v_pub_1", "v_pub_2"}
UploadUrls == {"url_1", "url_2"}
RemoteStatuses == {"PROCESSING_UPLOAD", "PUBLISH_COMPLETE", "FAILED"}

\* Well-formed answers, and malformed ones that lack one field, both, or the
\* whole data object.
InitDatas ==
    { Data("v_pub_1", "url_1", NONE), Data("v_pub_2", "url_2", NONE),
      Data(NONE, "url_1", NONE), Data("v_pub_1", NONE, NONE), Data(NONE, NONE, NONE),
      NoData }

StatusDatas == { Data(NONE, NONE, s) : s \in RemoteStatuses \cup {NONE} } \cup {NoData}

CreatorDatas == { Data(NONE, NONE, NONE), NoData }

\* Every data object under the envelope code "ok", and every other envelope
\* with one well-formed data object.
ApiResponses(Datas, d0) ==
    FailedResponses
        \cup { Response("ok", 200, TRUE, "ok", d) : d \in Datas }
        \cup { Response("ok", 200, TRUE, e, d0) : e \in OtherEnvelopes }

InitResponses == ApiResponses(InitDatas, Data("v_pub_2", "url_1", NONE))

StatusResponses == ApiResponses(StatusDatas, Data(NONE, NONE, "PUBLISH_COMPLETE"))

CreatorResponses == ApiResponses(CreatorDatas, Data(NONE, NONE, NONE))

\* What urlopen gives for the upload PUT: the HTTP status, or no answer.
UploadAnswer(tr, st) == Response(tr, st, FALSE, NONE, NoData)

UploadAnswers ==
    { UploadAnswer("ok", 200), UploadAnswer("ok", 201), UploadAnswer("ok", 204),
      UploadAnswer("HTTPError", 500), UploadAnswer("URLError", 0) }

\* A remote side that always answers with success.
GoodInitResponses == { Response("ok", 200, TRUE, "ok", Data("v_pub_1", "url_1", NONE)) }
GoodStatusResponses == { Response("ok", 200, TRUE, "ok", Data(NONE, NONE, "PROCESSING_UPLOAD")) }
GoodUploadAnswers == { UploadAnswer("ok", 201) }
GoodCreatorResponses == { Response("ok", 200, TRUE, "ok", Data(NONE, NONE, NONE)) }

\* ------------------------------------------------------------ _make_request
NoBody == [error |-> NONE, data |-> NoData]

Body(resp) == [error |-> resp.error, data |-> resp.data]

Raised(exc) == [raised |-> TRUE, exc |-> exc, value |-> NoBody]

Returned(body) == [raised |-> FALSE, exc |-> NONE, value |-> body]

\* (mutant) the default of the success path taken from the HTTPError path: "unknown"
ErrorCode_DefaultUnknown(resp) ==
    IF resp.error \in {NONE, "nocode"} THEN "unknown" ELSE resp.error

\* error.get("code", "ok") on response_data.get("error", {})
ErrorCode(resp) == IF resp.error \in {NONE, "nocode"} THEN "ok" ELSE resp.error

\* (mutant) the error envelope of a 2xx answer is not looked at
MakeRequest_IgnoresEnvelope(resp) ==
    IF resp.transport = "URLError" THEN Raised("RuntimeError")
    ELSE IF resp.transport = "HTTPError" THEN Raised("RuntimeError")
    ELSE IF ~resp.json THEN Raised("JSONDecodeError")
    ELSE Returned(Body(resp))

MakeRequest(resp) ==
    IF resp.transport = "URLError" THEN Raised("RuntimeError")
    ELSE IF resp.transport = "HTTPError" THEN Raised("RuntimeError")
    ELSE IF ~resp.json THEN Raised("JSONDecodeError")
    ELSE IF ErrorCode(resp) # "ok" THEN Raised("RuntimeError")
    ELSE Returned(Body(resp))

\* ------------------------------------------------------- _rate_limit_check
\* [t for t in calls if now - t < self.rate_limit_window]
Prune(calls, now) ==
    LET Keep(t) == now - t < TIKTOK_RATE_LIMIT_WINDOW
    IN  SelectSeq(calls, Keep)

\* (mutant) the limit check off by one: > instead of >=
LimitReached_OffByOne(calls) == Len(calls) > TIKTOK_RATE_LIMIT_PER_MINUTE

\* len(self.last_init_calls) >= self.rate_limit_per_minute
LimitReached(calls) == Len(calls) >= TIKTOK_RATE_LIMIT_PER_MINUTE

\* (mutant) the elapsed time taken for the remaining time
WaitTime_Elapsed(calls, now) == now - calls[1]

\* self.rate_limit_window - (now - oldest_call)
WaitTime(calls, now) == TIKTOK_RATE_LIMIT_WINDOW - (now - calls[1])

\* the argument of time.sleep
SleepRequest(wait_time) == wait_time + SLEEP_BUFFER

Max(a, b) == IF a >= b THEN a ELSE b

\* calls started so far, by all threads
TotalCalls == ncalls[1] + ncalls[2]

\* --------------------------------------------------- the init request body
\* (mutant) the end of the caption kept instead of its beginning
Caption_Suffix(title) ==
    IF Len(title) > MAX_CAPTION_LENGTH
    THEN SubSeq(title, Len(title) - MAX_CAPTION_LENGTH + 1, Len(title))
    ELSE title

\* lines 184-185: the caption cut to the limit
Caption(title) ==
    IF Len(title) > MAX_CAPTION_LENGTH THEN Slice(title, MAX_CAPTION_LENGTH) ELSE title

\* lines 178-189: post_info, a dict whose "title" key is optional; the
\* overrides, when not empty, are written over it by dict.update
PostInfo(title, overrides) ==
    LET own == IF Truthy(title)
               THEN [has_title |-> TRUE, title |-> Caption(title.text), others |-> 0]
               ELSE [has_title |-> FALSE, title |-> <<>>, others |-> 0]
        truthy == overrides.given /\ (overrides.has_title \/ overrides.others > 0)
    IN  IF ~truthy THEN own
        ELSE [has_title |-> own.has_title \/ overrides.has_title,
              title |-> IF overrides.has_title THEN overrides.title ELSE own.title,
              others |-> overrides.others]

\* (mutant) the last, partial chunk forgotten
TotalChunks_Floor(video_size, chunk_size) == video_size \div chunk_size

\* line 192: total_chunks, Python's floor division of non-negative integers
TotalChunks(video_size, chunk_size) == (video_size + chunk_size - 1) \div chunk_size

\* lines 195-200: source_info
SourceInfo(video_size, chunk_size) ==
    [source |-> "FILE_UPLOAD", video_size |-> video_size, chunk_size |-> chunk_size,
     total_chunk_count |-> TotalChunks(video_size, chunk_size)]

\* lines 206-209: init_data
InitData(a) ==
    [post_info |-> PostInfo(a.title, a.post_info_overrides),
     source_info |-> SourceInfo(a.video_size, a.chunk_size)]

\* a request without a JSON body of this kind
NoInitData ==
    [post_info |-> [has_title |-> FALSE, title |-> <<>>, others |-> 0],
     source_info |-> [source |-> NONE, video_size |-> 0, chunk_size |-> 0,
                      total_chunk_count |-> 0]]

\* (mutant) the range ends at the size instead of the last byte
UploadHeaders_LastIsSize(video_size) ==
    [content_type |-> "video/mp4",
     content_length |-> ToString(video_size),
     content_range |-> "bytes 0-" \o ToString(video_size) \o "/" \o ToString(video_size)]

\* lines 248-252: the headers of the PUT; str() and the f-string write the
\* integers in decimal
UploadHeaders(video_size) ==
    [content_type |-> "video/mp4",
     content_length |-> ToString(video_size),
     content_range |-> "bytes 0-" \o ToString(video_size - 1) \o "/" \o ToString(video_size)]

NoHeaders == [content_type |-> NONE, content_length |-> NONE, content_range |-> NONE]

\* a call without arguments
NoArgs == Args(NoString, NoOverrides, 0, 0)

\* The locals of one call: self (the poster), now, the list being built by the
\* comprehension (pruned), and what _rate_limit_check did (the time it was
\* entered, the sleep it asked for and until when, the number of sleeps); the
\* arguments post_video was called with, its video_size and its init_data.
NoFrame ==
    [self |-> 0, now |-> 0, pruned |-> <<>>, entered |-> 0,
     sleep_req |-> 0, sleep_until |-> 0, sleeps |-> 0,
     publish_id |-> NONE, upload_url |-> NONE,
     args |-> NoArgs, video_size |-> 0, init_data |-> NoInitData]

NoResult == [outcome |-> NONE, exc |-> NONE, publish_id |-> NONE, status |-> NONE, upload_url |-> NONE]

\* ---------------------------------------------------------------- numbers
\* A float of the program is the rational number it stands for, as a reduced
\* fraction num/den with den > 0.  Arithmetic is exact: so is the program's on
\* the configured values (2.0, 8.0, 3.0, 5.0, 5 / 8.0), which are all binary
\* fractions.
RECURSIVE GCD(_, _)
GCD(a, b) == IF b = 0 THEN a ELSE GCD(b, a % b)

Q(n, d) == LET g == GCD(n, d) IN [num |-> n \div g, den |-> d \div g]

Zero == Q(0, 1)

QAdd(a, b) == Q(a.num * b.den + b.num * a.den, a.den * b.den)

QMul(a, b) == Q(a.num * b.num, a.den * b.den)

\* a / b for b > 0
QDiv(a, b) == Q(a.num * b.den, a.den * b.num)

\* ----------------------------------------------------------------- config
\* config.SLIDE_INTRO_DURATION = 2.0, SLIDE_PUZZLE_DURATION = 8.0,
\* SLIDE_ANSWER_DURATION = 3.0, SLIDE_EXPLANATION_DURATION = 5.0 (seconds)
SLIDE_INTRO_DURATION == Q(2, 1)
SLIDE_PUZZLE_DURATION == Q(8, 1)
SLIDE_ANSWER_DURATION == Q(3, 1)
SLIDE_EXPLANATION_DURATION == Q(5, 1)

\* what the video builder reads from the config module at each call
Config(n, i, p, a, e) ==
    [countdown_start |-> n, intro |-> i, puzzle |-> p, answer |-> a, explanation |-> e]

DefaultConfig ==
    Config(COUNTDOWN_START, SLIDE_INTRO_DURATION, SLIDE_PUZZLE_DURATION,
           SLIDE_ANSWER_DURATION, SLIDE_EXPLANATION_DURATION)

\* other positive countdown starts and durations a configuration may hold
Configs ==
    {DefaultConfig}
       \cup { Config(n, SLIDE_INTRO_DURATION, p, SLIDE_ANSWER_DURATION, SLIDE_EXPLANATION_DURATION) :
                 n \in 1..MaxCountdown, p \in {Q(8, 1), Q(3, 1), Q(5, 2)} }
       \cup { Config(COUNTDOWN_START, Q(1, 2), SLIDE_PUZZLE_DURATION, Q(3, 2), Q(7, 1)),
              Config(COUNTDOWN_START, Q(1, 1), Q(1, 4), Q(1, 1), Q(1, 1)) }

\* ------------------------------------------------------------------ files
\* A directory: the working directory, output/videos, or the temporary
\* directory of the n-th build_video call.
Dir(root, n) == [root |-> root, n |-> n]
NoDir == Dir(NONE, 0)
CWD == Dir("cwd", 0)
VIDEOS_DIR == Dir("output/videos", 0)
TempDir(n) == Dir("tmp", n)

\* A path: name is the file name without its number, index the number that
\* "{i:02d}" writes into it (-1: none, -2: the pattern "%02d").
Path(dir, name, index) == [dir |-> dir, name |-> name, index |-> index]
NoPath == Path(NoDir, NONE, -1)
PATTERN == -2

\* A file: its path and what is in it (shows: the number drawn on a
\* countdown frame; complete: a video the encoder finished; text: the text
\* drawn on a slide).
File(path, kind, shows, complete) ==
    [path |-> path, kind |-> kind, shows |-> shows, complete |-> complete, text |-> << >>]

\* a text slide saved as PNG
Slide(path, text) == [File(path, "slide", 0, TRUE) EXCEPT !.text = text]

\* writing a file replaces what was at its path
Write(files, f) == { g \in files : g.path # f.path } \cup {f}

Exists(files, path) == \E g \in files : g.path = path

\* --------------------------------------------------------- the encoder command
\* One element of the argument list: a word, a number written by str(), or a
\* path written by str().
Word(w) == [word |-> w, num |-> Zero, path |-> NoPath]
Number(q) == [word |-> "#", num |-> q, path |-> NoPath]
PathArg(p) == [word |-> "/", num |-> Zero, path |-> p]

\* (mutant) the reveal segment left out of the sum
Total_WithoutReveal(c) == QAdd(QAdd(QAdd(Zero, c.intro), c.answer), c.explanation)

\* lines 235-238: total, the sum() of the four durations, which starts at 0
Total(c) == QAdd(QAdd(QAdd(QAdd(Zero, c.intro), c.puzzle), c.answer), c.explanation)

\* (mutant) the time bound written behind the input it is meant for
LoopedInput_BoundBehind(fps, duration, path) ==
    << Word("-loop"), Number(Q(1, 1)), Word("-framerate"), Number(Q(fps, 1)),
       Word("-i"), PathArg(path), Word("-t"), Number(duration) >>

\* lines 227, 229, 230: a still image, looped at the frame rate for duration
LoopedInput(fps, duration, path) ==
    << Word("-loop"), Number(Q(1, 1)), Word("-framerate"), Number(Q(fps, 1)),
       Word("-t"), Number(duration), Word("-i"), PathArg(path) >>

\* lines 225-244: cmd.  The filter graph is one argument, which scales the
\* four video inputs to the resolution and the frame rate and concatenates
\* them; with_audio is "audio_path and Path(audio_path).exists()".
Command(fps, countdown_fps, c, temp_path, with_audio, audio_path, output_path) ==
    << Word("ffmpeg"), Word("-y") >>
    \o LoopedInput(fps, c.intro, Path(temp_path, "slide1.png", -1))
    \o << Word("-framerate"), Number(countdown_fps),
          Word("-i"), PathArg(Path(temp_path, "countdown_.png", PATTERN)) >>
    \o LoopedInput(fps, c.answer, Path(temp_path, "slide3.png", -1))
    \o LoopedInput(fps, c.explanation, Path(temp_path, "slide4.png", -1))
    \o << Word("-filter_complex"), Word("[0:v]..[v0];[1:v]..[v1];[2:v]..[v2];[3:v]..[v3];concat=n=4"),
          Word("-map"), Word("[outv]") >>
    \o (IF with_audio
        THEN << Word("-i"), PathArg(audio_path), Word("-t"), Number(Total(c)),
                Word("-c:a"), Word("aac"), Word("-b:a"), Word("128k") >>
        ELSE << >>)
    \o << Word("-c:v"), Word("libx264"), Word("-preset"), Word("medium"),
          Word("-crf"), Number(Q(VIDEO_CRF, 1)), Word("-pix_fmt"), Word("yuv420p"),
          Word("-movflags"), Word("+faststart"), PathArg(output_path) >>

\* run_pipeline, lines 166-171: metadata_extra["video_duration"]
VideoDuration(c) == QAdd(QAdd(QAdd(c.intro, c.puzzle), c.answer), c.explanation)

\* ------------------------------------------------------- the build_video call
\* the four hooks of _create_intro_slide, lines 82-87
HOOKS ==
    { <<84, 104, 105, 110, 107, 32, 121, 111, 117, 32, 99, 97, 110, 32, 103, 101, 116, 32, 105, 116, 63>>,
      <<67, 97, 110, 32, 121, 111, 117, 32, 115, 112, 111, 116, 32, 116, 104, 101, 32, 112, 97, 116, 116, 101, 114, 110, 63>>,
      <<82, 101, 97, 100, 121, 63>>,
      <<87, 104, 105, 99, 104, 32, 111, 110, 101, 32, 99, 111, 109, 112, 108, 101, 116, 101, 115, 32, 105, 116, 63>> }

\* line 89: a longer question text is not shown
INTRO_MAX == 50

\* lines 88-91: what the intro slide can show: the stripped question text,
\* or, for an empty or long one, whichever hook random.choice picks
IntroTexts(question_text) ==
    LET text == Strip(IF Truthy(question_text) THEN question_text.text ELSE << >>)
    IN  IF text = << >> \/ Len(text) > INTRO_MAX THEN HOOKS ELSE {text}

\* (mutant) the label is not cut down to its first character
AnswerLetter_WholeLabel(answer) ==
    LET upper == Upper(Strip(answer))
    IN  IF Contains(upper, COLON) THEN Strip(BeforeFirst(upper, COLON)) ELSE upper

\* lines 109-114: the letter drawn on the answer slide
AnswerLetter(answer) ==
    LET upper == Upper(Strip(answer))
        label == IF Contains(upper, COLON) THEN Strip(BeforeFirst(upper, COLON)) ELSE upper
    IN  IF Len(label) > 1 THEN << label[1] >> ELSE label

\* The arguments of build_video: the number N of the puzzle id "puzzle_N",
\* output_path and audio_path (NoPath for None), question_text and answer;
\* here with a short question ("abc") and the answer "B".
BuildArgs(id, out, audio) ==
    [puzzle_id |-> id, output_path |-> out, audio_path |-> audio,
     question_text |-> String(<< 97, 98, 99 >>), answer |-> << 66 >>]

\* the arguments as run_pipeline passes them, for a question and an answer
SlideArgs(question_text, answer) ==
    [BuildArgs(1, Path(VIDEOS_DIR, "puzzle.mp4", 1), NoPath) EXCEPT
        !.question_text = question_text, !.answer = answer]

\* the answers: every string of up to MaxAnswerLen characters
AnswerStrings == StringsUpTo({SPACE, COLON, 66, 97, SHARP_S}, MaxAnswerLen)

\* the question texts: none, empty, blank, short, and around the limit, with
\* and without whitespace to strip
Questions ==
    { NoString, String(<< >>), String(<< SPACE, NEWLINE >>), String(<< SPACE, 97, SPACE >>),
      String(Text(97, INTRO_MAX)), String(<< SPACE >> \o Text(97, INTRO_MAX) \o << NEWLINE >>),
      String(Text(97, INTRO_MAX + 1)) }

SlideArgsSet ==
    { SlideArgs(String(<< 97, 98, 99 >>), a) : a \in AnswerStrings }
        \cup { SlideArgs(q, << 66 >>) : q \in Questions }

AUDIO_PATH == Path(CWD, "music.mp3", -1)

PuzzleIds == {1, 2}

\* run_pipeline passes asset_manager.get_video_path(puzzle.id) and no audio;
\* another caller may pass neither or both
BuildArgsSet ==
    { BuildArgs(id, out, audio) :
        id \in PuzzleIds,
        out \in {NoPath, Path(VIDEOS_DIR, "puzzle.mp4", 1), Path(VIDEOS_DIR, "puzzle.mp4", 2)},
        audio \in {NoPath, AUDIO_PATH} }

\* how a call ends: a path returned, or an exception with its message
NoBuildResult == [outcome |-> NONE, path |-> NoPath, exc |-> NONE, message |-> NONE]
BuildReturned(path) == [outcome |-> "returned", path |-> path, exc |-> NONE, message |-> NONE]
\* (mutant) raise RuntimeError("Failed to create video") without e.stderr
BuildRaised_WithoutStderr(exc, msg) ==
    [outcome |-> "raised", path |-> NoPath, exc |-> exc,
     message |-> IF msg = NONE THEN NONE ELSE "Failed to create video"]

BuildRaised(exc, msg) == [outcome |-> "raised", path |-> NoPath, exc |-> exc, message |-> msg]

\* The call: where it stands, how many calls were started, its arguments and
\* locals, the runs of the encoder it started, the return value or exception
\* on its way out of the with block (leaving), and how it ended; intro is
\* the last intro slide the calls have saved: the question text given and
\* the text drawn on the slide.
NoBuild ==
    [pc |-> "idle", n |-> 0, args |-> BuildArgs(0, NoPath, NoPath), temp_path |-> NoDir,
     countdown_paths |-> << >>, countdown_fps |-> Zero, output_path |-> NoPath,
     cmd |-> << >>, engine |-> << >>, leaving |-> NoBuildResult, result |-> NoBuildResult,
     intro |-> [made |-> FALSE, question_text |-> NoString, text |-> << >>]]

\* ------------------------------------------------------- the puzzle records
\* A value of the parsed JSON: its Python type, and its text (str), number
\* (int, bool with True = 1, float) or items (list).
Val(type, text, num, items) == [type |-> type, text |-> text, num |-> num, items |-> items]
Str(s) == Val("str", s, 0, << >>)
Integer(n) == Val("int", << >>, n, << >>)
Bool(b) == Val("bool", << >>, IF b THEN 1 ELSE 0, << >>)
Float(n) == Val("float", << >>, n, << >>)
List(items) == Val("list", << >>, 0, items)
Null == Val("NoneType", << >>, 0, << >>)
\* a key the dictionary does not have
Missing == Val("missing", << >>, 0, << >>)

\* isinstance(v, str), isinstance(v, int) (bool is a subclass of int), isinstance(v, list)
IsStr(v) == v.type = "str"
IsInt(v) == v.type \in {"int", "bool"}
IsList(v) == v.type = "list"

\* models.py, lines 7-9
MIN_OPTIONS == 5
MAX_OPTIONS == 8
\* "A" .. "H"
OPTION_LABELS == { << c >> : c \in 65..72 }

\* "matrix_reasoning" and another puzzle type, by a one-letter text each
MATRIX_REASONING == << 109 >>

\* models.py, lines 13-20
ExtractOptionLabel(option) ==
    IF ~IsStr(option) THEN << >>
    ELSE LET prefix == Upper(Strip(BeforeFirst(option.text, COLON)))
         IN  IF Len(prefix) = 1 /\ prefix \in OPTION_LABELS THEN prefix ELSE << >>

\* x in options, for a string x
InList(text, options) == \E i \in 1..Len(options) : options[i] = Str(text)

\* lines 101-105 and 112: label_to_option.get(label): the first option that
\* carries the label, None (here Null) without one
RECURSIVE FirstWithLabel(_, _)
FirstWithLabel(options, label) ==
    IF options = << >> \/ label = << >> THEN Null
    ELSE IF ExtractOptionLabel(Head(options)) = label THEN Head(options)
    ELSE FirstWithLabel(Tail(options), label)

\* a dictionary with the eight keys (Missing for a key that is not there),
\* and the Puzzle made of it
PuzzleRecord(id, puzzle_type, difficulty, question_text, grid_logic, options, correct_answer, explanation) ==
    [id |-> id, puzzle_type |-> puzzle_type, difficulty |-> difficulty,
     question_text |-> question_text, grid_logic |-> grid_logic, options |-> options,
     correct_answer |-> correct_answer, explanation |-> explanation]

NoRecord == PuzzleRecord(Missing, Missing, Missing, Missing, Missing, Missing, Missing, Missing)

\* not isinstance(v, str) or not v.strip()
BlankOrNoString(v) == ~IsStr(v) \/ Strip(v.text) = << >>

\* how validate_puzzle ends
Rejected(why) == [raised |-> TRUE, error |-> why, puzzle |-> NoRecord]
Accepted(puzzle) == [raised |-> FALSE, error |-> NONE, puzzle |-> puzzle]

\* lines 97-116: the answer as it is stored: the stripped answer when it is
\* one of the options, else the first option with the label of the answer,
\* else Null (the ValueError of line 116)
NormalizedAnswer(correct_answer, options) ==
    LET normalized == Strip(correct_answer.text)
    IN  IF InList(normalized, options.items) THEN Str(normalized)
        ELSE LET label == ExtractOptionLabel(Str(normalized))
                 upper == Upper(normalized)
                 answer_label == IF label # << >> THEN label
                                 ELSE IF Len(upper) = 1 /\ upper \in OPTION_LABELS THEN upper
                                 ELSE << >>
             IN  FirstWithLabel(options.items, answer_label)

\* models.py, lines 55-137
validate_puzzle(data) ==
    IF \E f \in DOMAIN data : data[f] = Missing
    THEN Rejected("Missing required fields")
    ELSE IF data.puzzle_type # Str(MATRIX_REASONING)
    THEN Rejected("Invalid puzzle_type")
    ELSE IF ~IsInt(data.difficulty) \/ ~(1 <= data.difficulty.num /\ data.difficulty.num <= 10)
    THEN Rejected("Difficulty must be an integer from 1-10")
    ELSE IF ~IsList(data.options)
            \/ ~(MIN_OPTIONS <= Len(data.options.items) /\ Len(data.options.items) <= MAX_OPTIONS)
    THEN Rejected("Options must be a list")
    ELSE IF \E i \in 1..Len(data.options.items) : BlankOrNoString(data.options.items[i])
    THEN Rejected("Option must be a non-empty string")
    ELSE IF BlankOrNoString(data.correct_answer)
    THEN Rejected("Field 'correct_answer' must be a non-empty string")
    ELSE IF NormalizedAnswer(data.correct_answer, data.options) = Null
    THEN Rejected("correct_answer not found in options")
    ELSE IF \E f \in {"id", "question_text", "grid_logic", "explanation"} : BlankOrNoString(data[f])
    THEN Rejected("Field must be a non-empty string")
    ELSE Accepted([data EXCEPT
            !.correct_answer = NormalizedAnswer(data.correct_answer, data.options)])

\* ------------------------------------------------- what the service answers
\* the texts the records below are made of
LabelText(c) == << c >>
Described(c, d) == << c, COLON, SPACE, d >>

\* option lists: "A".."E"; "A".."H"; four and nine options; "A: x".."E: x";
\* two options with the label A, the second with a trailing blank; an option
\* "x " without a label; a blank option; a number among the options; a
\* string in place of the list
Plain(n) == List([i \in 1..n |-> Str(LabelText(64 + i))])
Labelled == List([i \in 1..5 |-> Str(Described(64 + i, 120))])
TwiceA == List([Labelled.items EXCEPT ![2] = Str(Described(65, 121) \o << SPACE >>)])
Padded == List([Plain(5).items EXCEPT ![1] = Str(<< 120, SPACE >>)])
OptionValues ==
    { Plain(5), Plain(8), Plain(4), Plain(9), Labelled, TwiceA, Padded,
      List([Plain(5).items EXCEPT ![1] = Str(<< SPACE >>)]),
      List([Plain(5).items EXCEPT ![1] = Integer(1)]),
      Str(LabelText(65)) }

\* answers: "A", "a", " A ", "A: x", "A: q", "A: y ", "x ", "x", "Z", "",
\* " ", and a number
AnswerValues ==
    { Str(LabelText(65)), Str(LabelText(97)), Str(<< SPACE, 65, SPACE >>),
      Str(Described(65, 120)), Str(Described(65, 113)),
      Str(Described(65, 121) \o << SPACE >>), Str(<< 120, SPACE >>), Str(<< 120 >>),
      Str(LabelText(90)), Str(<< >>), Str(<< SPACE >>), Integer(1) }

DifficultyValues ==
    { Integer(0), Integer(1), Integer(10), Integer(11), Bool(TRUE), Bool(FALSE),
      Str(<< 53 >>), Float(5), Null }

\* a text field: "t", "", " ", null
TextValues == { Str(<< 116 >>), Str(<< >>), Str(<< SPACE >>), Null }

\* the record of src/test_basic.py, lines 12-21, by short texts
BaseRecord ==
    PuzzleRecord(Str(<< 116 >>), Str(MATRIX_REASONING), Integer(5), Str(<< 116 >>),
                 Str(<< 116 >>), Plain(5), Str(LabelText(65)), Str(<< 116 >>))

\* the dictionaries json.loads can give: every options list with every
\* answer, and the record above with one other field changed or missing
RawRecords ==
    { [BaseRecord EXCEPT !.options = o, !.correct_answer = a] :
          o \in OptionValues, a \in AnswerValues }
    \cup { [BaseRecord EXCEPT !.difficulty = d] : d \in DifficultyValues }
    \cup { [BaseRecord EXCEPT ![f] = v] :
             f \in {"id", "question_text", "grid_logic", "explanation"}, v \in TextValues }
    \cup { [BaseRecord EXCEPT !.puzzle_type = Str(<< 115 >>)] }
    \cup { [BaseRecord EXCEPT ![f] = Missing] : f \in DOMAIN BaseRecord }

\* What _call_llm returns: the text of a JSON object, of a JSON array, a text
\* that is no JSON, or None (a message without content).
Answer(kind, data) == [kind |-> kind, data |-> data]
NoAnswer == Answer(NONE, NoRecord)
ServiceAnswers ==
    { Answer("object", d) : d \in RawRecords }
        \cup { Answer("array", NoRecord), Answer("text", NoRecord), Answer("None", NoRecord) }

\* config.py, line 56
OPENAI_MAX_RETRIES == 2

\* the puzzle_id argument: None (0) or "puzzle_N"
PuzzleIdArgs == {0, 1}

\* puzzle_id as a string value: "puzzle_N" by the one-letter text "p"
IdValue(n) == Str(<< 112, 48 + n >>)

\* The generate_puzzle call: where it stands, its puzzle_id, the attempt of
\* the loop, the number of _call_llm calls made, how each attempt ended, the
\* locals response_text and data, how validate_puzzle ended, and what the
\* call returned (returned: "puzzle" or "None").
NoVerdict == [raised |-> FALSE, error |-> NONE, puzzle |-> NoRecord]
NoGen ==
    [pc |-> "idle", puzzle_id |-> 0, attempt |-> 0, calls |-> 0, log |-> << >>,
     response |-> NoAnswer, data |-> NoRecord, verdict |-> NoVerdict,
     returned |-> NONE, puzzle |-> NoRecord]

InitGen == gen = NoGen

InitPoster ==
    /\ clock = 0
    /\ last_init_calls = [p \in Posters |-> <<>>]
    /\ pc = [th \in Threads |-> "idle"]
    /\ frame = [th \in Threads |-> NoFrame]
    /\ reqs = [th \in Threads |-> <<>>]
    /\ result = [th \in Threads |-> NoResult]
    /\ init_log = <<>>
    /\ ncalls = [th \in Threads |-> 0]

\* the configuration as shipped, nothing written yet, no video being built
InitBuilder ==
    /\ cfg = DefaultConfig
    /\ fs = {}
    /\ build = NoBuild

\* --------------------------------------------------------- the pipeline run
IMAGES_DIR == Dir("output/images", 0)
METADATA_DIR == Dir("output/metadata", 0)

\* PipelineStats.__init__
NoStats ==
    [generated |-> 0, rendered |-> 0, videos_created |-> 0, failed |-> 0,
     posted |-> 0, post_failed |-> 0, drive_uploaded |-> 0, drive_failed |-> 0]

\* the flags run_pipeline is called with
Options(skip, post, drive) ==
    [skip_video |-> skip, post_to_tiktok |-> post, upload_to_drive |-> drive]

\* One call the loop makes for a puzzle: renderer.render, build_video,
\* post_video or upload_video, the path it was given (build_video: the path
\* it returned) and whether it returned or raised.
Call(op, path, outcome) == [op |-> op, path |-> path, outcome |-> outcome]

\* What became of one puzzle in the loop: whether its iteration ended in the
\* outer except clause and at which step, how posting and the Drive
\* upload were counted (NONE: not tried), final_video_path, and the calls
\* made for it, in order.
Item(id) ==
    [id |-> id, failed |-> FALSE, at |-> NONE, post |-> NONE, drive |-> NONE,
     final_video_path |-> NoPath, calls |-> << >>]

\* The call: where it stands, its flags, the puzzles generated (the N of each
\* id "puzzle_N"), the position idx of the loop, stats, the puzzle in work,
\* the puzzles whose iteration has ended, in order, and the exit code when
\* the process ended in sys.exit; caller is "main" when main() made the call,
\* and interrupted tells that a KeyboardInterrupt ended it.  count and
\* start_index are the arguments of generate_puzzles, succeeded the
\* positions i of range(count) whose generation gave a puzzle, before the
\* files in the output directories when get_next_puzzle_index looked, and
\* runs the number of earlier runs on the output directory.
NoRun ==
    [pc |-> "idle", opts |-> Options(FALSE, FALSE, FALSE), puzzles |-> << >>, idx |-> 0,
     stats |-> NoStats, item |-> Item(0), done |-> << >>, exit_code |-> -1,
     caller |-> NONE, interrupted |-> FALSE,
     count |-> 0, start_index |-> 0, succeeded |-> {}, before |-> {}, runs |-> 0]

InitRun == run = NoRun

Init == InitPoster /\ InitBuilder /\ InitRun /\ InitGen

\* ---------------------------------------------------------------- the clock
Tick(Ds) ==
    /\ \E d \in Ds : clock + d <= MaxTime /\ clock' = clock + d
    /\ UNCHANGED <<last_init_calls, pc, frame, reqs, result, init_log, ncalls>>
    /\ UNCHANGED <<builder_vars, run, gen>>

\* ------------------------------------------------------------ the call ends
Raises(th, exc) ==
    /\ pc' = [pc EXCEPT ![th] = "done"]
    /\ result' = [result EXCEPT ![th] = [NoResult EXCEPT !.outcome = "raised", !.exc = exc]]

\* One request as it went out and as it was answered: data is the JSON body
\* of an init request, headers are those of the PUT.
Sent(kind, target, data, headers, resp, mr) ==
    [kind |-> kind, target |-> target, data |-> data, headers |-> headers,
     resp |-> resp, mr |-> mr]

\* ---------------------------------------------------------------- post_video
\* lines 170-203: the file check; everything up to the call of _rate_limit_check
PostVideo(th, p, As) ==
    /\ pc[th] = "idle"
    /\ TotalCalls < MaxCalls
    /\ ncalls' = [ncalls EXCEPT ![th] = @ + 1]
    /\ reqs' = [reqs EXCEPT ![th] = <<>>]
    /\ \E exists \in BOOLEAN :
          IF ~exists
          THEN /\ Raises(th, "FileNotFoundError")
               /\ frame' = [frame EXCEPT ![th] = [NoFrame EXCEPT !.self = p]]
          ELSE /\ \E a \in As :
                     frame' = [frame EXCEPT ![th] =
                                  [NoFrame EXCEPT !.self = p, !.args = a,
                                                  !.video_size = a.video_size,
                                                  !.init_data = InitData(a)]]
               /\ pc' = [pc EXCEPT ![th] = "rate_limit_check"]
               /\ result' = [result EXCEPT ![th] = NoResult]
    /\ UNCHANGED <<clock, last_init_calls, init_log>>
    /\ UNCHANGED <<builder_vars, run, gen>>

\* lines 104-109: now = time.time() and the comprehension over the list
RateLimitCheck(th) ==
    /\ pc[th] = "rate_limit_check"
    /\ frame' = [frame EXCEPT ![th].now = clock,
                              ![th].entered = clock,
                              ![th].pruned = Prune(last_init_calls[frame[th].self], clock)]
    /\ pc' = [pc EXCEPT ![th] = "store_pruned"]
    /\ UNCHANGED <<clock, last_init_calls, reqs, result, init_log, ncalls>>
    /\ UNCHANGED <<builder_vars, run, gen>>

\* lines 107 (the assignment) and 113-123: the limit check and the call of sleep
StorePruned(th) ==
    /\ pc[th] = "store_pruned"
    /\ LET p == frame[th].self
           calls == frame[th].pruned
           now == frame[th].now
       IN  /\ last_init_calls' = [last_init_calls EXCEPT ![p] = calls]
           /\ IF LimitReached(calls) /\ WaitTime(calls, now) > 0
              THEN /\ frame' = [frame EXCEPT
                                  ![th].sleep_req = SleepRequest(WaitTime(calls, now)),
                                  ![th].sleep_until = clock + SleepRequest(WaitTime(calls, now)),
                                  ![th].sleeps = @ + 1]
                   /\ pc' = [pc EXCEPT ![th] = "sleeping"]
              ELSE /\ UNCHANGED frame
                   /\ pc' = [pc EXCEPT ![th] = "record"]
    /\ UNCHANGED <<clock, reqs, result, init_log, ncalls>>
    /\ UNCHANGED <<builder_vars, run, gen>>

\* (mutant) a loop instead of one sleep: back to the check with the old now
Wake_Recheck(th) ==
    /\ pc[th] = "sleeping"
    /\ clock' = Max(clock, frame[th].sleep_until)
    /\ pc' = [pc EXCEPT ![th] = "store_pruned"]
    /\ UNCHANGED <<last_init_calls, frame, reqs, result, init_log, ncalls>>
    /\ UNCHANGED <<builder_vars, run, gen>>

\* lines 123-129: sleep returns (not before the requested time has passed),
\* now = time.time() again and the second comprehension
Wake(th) ==
    /\ pc[th] = "sleeping"
    /\ \E over \in 0..MaxOvershoot :
          /\ clock' = Max(clock, frame[th].sleep_until + over)
          /\ frame' = [frame EXCEPT
                         ![th].now = clock',
                         ![th].pruned = Prune(last_init_calls[frame[th].self], clock')]
    /\ pc' = [pc EXCEPT ![th] = "store_pruned_again"]
    /\ UNCHANGED <<last_init_calls, reqs, result, init_log, ncalls>>
    /\ UNCHANGED <<builder_vars, run, gen>>

\* line 127: the assignment of the second comprehension
StorePrunedAgain(th) ==
    /\ pc[th] = "store_pruned_again"
    /\ last_init_calls' = [last_init_calls EXCEPT ![frame[th].self] = frame[th].pruned]
    /\ pc' = [pc EXCEPT ![th] = "record"]
    /\ UNCHANGED <<clock, frame, reqs, result, init_log, ncalls>>
    /\ UNCHANGED <<builder_vars, run, gen>>

\* (mutant) the timestamp is appended twice
Record_Twice(th) ==
    /\ pc[th] = "record"
    /\ LET p == frame[th].self
           entry == [t |-> frame[th].now, poster |-> p,
                     entered |-> frame[th].entered, slept |-> frame[th].sleeps]
       IN  /\ last_init_calls' = [last_init_calls EXCEPT
                                    ![p] = Append(Append(@, frame[th].now), frame[th].now)]
           /\ init_log' = Append(Append(init_log, entry), entry)
    /\ pc' = [pc EXCEPT ![th] = "init"]
    /\ UNCHANGED <<clock, frame, reqs, result, ncalls>>
    /\ UNCHANGED <<builder_vars, run, gen>>

\* line 133: self.last_init_calls.append(now)
Record(th) ==
    /\ pc[th] = "record"
    /\ LET p == frame[th].self
       IN  /\ last_init_calls' = [last_init_calls EXCEPT ![p] = Append(@, frame[th].now)]
           /\ init_log' = Append(init_log,
                  [t |-> frame[th].now, poster |-> p,
                   entered |-> frame[th].entered, slept |-> frame[th].sleeps])
    /\ pc' = [pc EXCEPT ![th] = "init"]
    /\ UNCHANGED <<clock, frame, reqs, result, ncalls>>
    /\ UNCHANGED <<builder_vars, run, gen>>

\* (mutant) upload_url read with .get(): its absence goes unnoticed
HasInitFields_OnlyPublishId(body) == body.data.present /\ body.data.publish_id # NONE

\* init_response["data"]["publish_id"], init_response["data"]["upload_url"]
HasInitFields(body) ==
    body.data.present /\ body.data.publish_id # NONE /\ body.data.upload_url # NONE

\* lines 205-218: the init request and the two subscripts on its answer
InitPost(th, Resps) ==
    /\ pc[th] = "init"
    /\ \E resp \in Resps :
          LET mr == MakeRequest(resp)
          IN  /\ reqs' = [reqs EXCEPT ![th] = Append(@, Sent("init", "/video/init/", frame[th].init_data, NoHeaders, resp, mr))]
              /\ IF mr.raised
                 THEN Raises(th, mr.exc) /\ UNCHANGED frame
                 ELSE IF ~HasInitFields(mr.value)
                 THEN Raises(th, "KeyError") /\ UNCHANGED frame
                 ELSE /\ frame' = [frame EXCEPT
                                     ![th].publish_id = mr.value.data.publish_id,
                                     ![th].upload_url = mr.value.data.upload_url]
                      /\ pc' = [pc EXCEPT ![th] = "upload"]
                      /\ UNCHANGED result
    /\ UNCHANGED <<clock, last_init_calls, init_log, ncalls>>
    /\ UNCHANGED <<builder_vars, run, gen>>

\* (mutant) the status of the answer is not checked
UploadFails_AnyStatus(ans) == ans.transport # "ok"

\* response.status not in [200, 201], or urlopen raised: both end in RuntimeError
UploadFails(ans) == ans.transport # "ok" \/ ans.http \notin {200, 201}

\* lines 222 and 243-262: _upload_video, one PUT to upload_url
UploadVideo(th, Answers) ==
    /\ pc[th] = "upload"
    /\ \E ans \in Answers :
          LET failed == UploadFails(ans)
              mr == IF failed THEN Raised("RuntimeError") ELSE Returned(NoBody)
          IN  /\ reqs' = [reqs EXCEPT ![th] = Append(@, Sent("upload", frame[th].upload_url, NoInitData,
                                       UploadHeaders(frame[th].video_size), ans, mr))]
              /\ IF failed
                 THEN Raises(th, "RuntimeError")
                 ELSE pc' = [pc EXCEPT ![th] = "status"] /\ UNCHANGED result
    /\ UNCHANGED <<clock, last_init_calls, frame, init_log, ncalls>>
    /\ UNCHANGED <<builder_vars, run, gen>>

\* (mutant) the status looked up in the response instead of its data object
StatusOf_TopLevel(body) == "unknown"

\* response.get("data", {}) in get_post_status, then status.get("status", "unknown")
StatusOf(body) ==
    IF body.data.present /\ body.data.status # NONE THEN body.data.status ELSE "unknown"

\* lines 227-233 and 273-282: get_post_status(publish_id) and the return
GetPostStatus(th, Resps) ==
    /\ pc[th] = "status"
    /\ \E resp \in Resps :
          LET mr == MakeRequest(resp)
          IN  /\ reqs' = [reqs EXCEPT ![th] = Append(@, Sent("status", frame[th].publish_id, NoInitData, NoHeaders, resp, mr))]
              /\ IF mr.raised
                 THEN Raises(th, mr.exc)
                 ELSE /\ pc' = [pc EXCEPT ![th] = "done"]
                      /\ result' = [result EXCEPT ![th] =
                            [outcome |-> "returned", exc |-> NONE,
                             publish_id |-> frame[th].publish_id,
                             status |-> StatusOf(mr.value),
                             upload_url |-> frame[th].upload_url]]
    /\ UNCHANGED <<clock, last_init_calls, frame, init_log, ncalls>>
    /\ UNCHANGED <<builder_vars, run, gen>>

\* lines 141-150: query_creator_info, one request, no state of the poster touched
QueryCreatorInfo(th, p, Resps) ==
    /\ pc[th] = "idle"
    /\ TotalCalls < MaxCalls
    /\ ncalls' = [ncalls EXCEPT ![th] = @ + 1]
    /\ frame' = [frame EXCEPT ![th] = [NoFrame EXCEPT !.self = p]]
    /\ \E resp \in Resps :
          LET mr == MakeRequest(resp)
          IN  /\ reqs' = [reqs EXCEPT ![th] = <<Sent("query", "/creator_info/query/", NoInitData, NoHeaders, resp, mr)>>]
              /\ IF mr.raised
                 THEN Raises(th, mr.exc)
                 ELSE /\ pc' = [pc EXCEPT ![th] = "done"]
                      /\ result' = [result EXCEPT ![th] =
                            [NoResult EXCEPT !.outcome = "returned"]]
    /\ UNCHANGED <<clock, last_init_calls, init_log>>
    /\ UNCHANGED <<builder_vars, run, gen>>

\* the caller takes the result (or catches the exception) and goes on
Finish(th) ==
    /\ pc[th] = "done"
    /\ pc' = [pc EXCEPT ![th] = "idle"]
    /\ frame' = [frame EXCEPT ![th] = NoFrame]
    /\ reqs' = [reqs EXCEPT ![th] = <<>>]
    /\ result' = [result EXCEPT ![th] = NoResult]
    /\ UNCHANGED <<clock, last_init_calls, init_log, ncalls>>
    /\ UNCHANGED <<builder_vars, run, gen>>

\* One step of thread th, which uses the posters of Ps against a remote side
\* that answers from the given sets.
Step(th, Ps, As, IR, UA, SR, CR) ==
    \/ \E p \in Ps : PostVideo(th, p, As)
    \/ RateLimitCheck(th)
    \/ StorePruned(th)
    \/ Wake(th)
    \/ StorePrunedAgain(th)
    \/ Record(th)
    \/ InitPost(th, IR)
    \/ UploadVideo(th, UA)
    \/ GetPostStatus(th, SR)
    \/ \E p \in Ps : QueryCreatorInfo(th, p, CR)
    \/ Finish(th)

\* run_pipeline: one poster, used by one thread
Next ==
    \/ Tick(TickSet)
    \/ Step(1, {1}, {PipelineArgs}, InitResponses, UploadAnswers, StatusResponses, CreatorResponses)

Spec == Init /\ [][Next]_vars

\* The same caller against a remote side that always answers with success,
\* under a finer clock: every behaviour of _rate_limit_check, which reads
\* nothing of the answers.
GoodCalls(th, Ps, As) ==
    Step(th, Ps, As, GoodInitResponses, GoodUploadAnswers, GoodStatusResponses, GoodCreatorResponses)

\* with the arguments run_pipeline passes
GoodStep(th, Ps) == GoodCalls(th, Ps, {PipelineArgs})

NextRateLimit == Tick(FineTickSet) \/ GoodStep(1, {1})

SpecRateLimit == Init /\ [][NextRateLimit]_vars

\* a running call keeps running, and a sleep ends
SpecRateLimitFair == SpecRateLimit /\ WF_vars(GoodStep(1, {1}))

\* Two posters constructed in one process and used in turn by one caller.
NextInstances == Tick({TIKTOK_RATE_LIMIT_WINDOW}) \/ GoodStep(1, {1, 2})

SpecInstances == Init /\ [][NextInstances]_vars

\* One poster shared by two threads that call it concurrently; a thread can
\* be preempted between any two of the steps of a call.  The second thread
\* makes MaxRacingCalls calls.
NextThreads ==
    \/ Tick({TIKTOK_RATE_LIMIT_WINDOW})
    \/ GoodStep(1, {1})
    \/ (pc[2] # "idle" \/ ncalls[2] < MaxRacingCalls) /\ GoodStep(2, {1})

SpecThreads == Init /\ [][NextThreads]_vars

\* One caller that passes every kind of arguments to post_video, against a
\* remote side whose API always answers with success and whose upload
\* endpoint answers in every way; the clock moves only when a call sleeps.
NextPublish ==
    Step(1, {1}, PublishArgs,
         GoodInitResponses, UploadAnswers, GoodStatusResponses, GoodCreatorResponses)

SpecPublish == Init /\ [][NextPublish]_vars

\* ------------------------------------------------------------ video builder
\* line 191: the with block is entered; its temporary directory is new
BuildVideo(As) ==
    /\ build.pc = "idle"
    /\ build.n < MaxBuilds
    /\ \E a \in As :
          build' = [NoBuild EXCEPT !.pc = "intro", !.n = build.n + 1, !.args = a,
                                   !.temp_path = TempDir(build.n + 1),
                                   !.intro = build.intro]
    /\ UNCHANGED <<cfg, fs>>
    /\ UNCHANGED <<poster_vars, run, gen>>

\* an exception on its way out of the with block
Fails(exc, msg) ==
    build' = [build EXCEPT !.pc = "exit", !.leaving = BuildRaised(exc, msg)]

\* image.save(output_path, "PNG") of the three text slides, which can raise
SaveSlide(name, text, then) ==
    \E ok \in BOOLEAN :
        IF ok
        THEN /\ fs' = Write(fs, Slide(Path(build.temp_path, name, -1), text))
             /\ build' = [build EXCEPT
                   !.pc = then,
                   !.intro = IF name = "slide1.png"
                             THEN [made |-> TRUE, question_text |-> build.args.question_text,
                                   text |-> text]
                             ELSE @]
        ELSE /\ Fails("OSError", NONE)
             /\ UNCHANGED fs

\* lines 195-196 and 80-95
CreateIntroSlide ==
    /\ build.pc = "intro"
    /\ \E text \in IntroTexts(build.args.question_text) :
          SaveSlide("slide1.png", text, "countdown")
    /\ UNCHANGED cfg
    /\ UNCHANGED <<poster_vars, run, gen>>

\* (mutant) the countdown runs down to 0: one frame more
CountdownFrames_ToZero(start, output_dir) ==
    [i \in 1..(start + 1) |->
        File(Path(output_dir, "countdown_.png", i - 1), "frame", start - (i - 1), TRUE)]

\* lines 167-182: enumerate(range(COUNTDOWN_START, 0, -1)): the i-th frame
\* (from 0) shows COUNTDOWN_START - i and is saved as countdown_{i:02d}.png
CountdownFrames(start, output_dir) ==
    [i \in 1..start |->
        File(Path(output_dir, "countdown_.png", i - 1), "frame", start - (i - 1), TRUE)]

\* lines 197-199 and 152-183: the frames are saved one by one (PIL can raise
\* at each, and at opening the puzzle image before the first); with all of
\* them saved, their number gives the frame rate
CreateCountdownFrames ==
    /\ build.pc = "countdown"
    /\ LET frames == CountdownFrames(cfg.countdown_start, build.temp_path)
       IN  \E k \in 0..Len(frames) :
              /\ fs' = fs \cup { frames[i] : i \in 1..k }
              /\ IF k = Len(frames)
                 THEN build' = [build EXCEPT
                         !.pc = "answer",
                         !.countdown_paths = [i \in 1..k |-> frames[i].path],
                         !.countdown_fps = QDiv(Q(k, 1), cfg.puzzle)]
                 ELSE Fails("OSError", NONE)
    /\ UNCHANGED cfg
    /\ UNCHANGED <<poster_vars, run, gen>>

\* lines 200-201 and 97-117
CreateAnswerSlide ==
    /\ build.pc = "answer"
    /\ SaveSlide("slide3.png", AnswerLetter(build.args.answer), "explanation")
    /\ UNCHANGED cfg
    /\ UNCHANGED <<poster_vars, run, gen>>

\* lines 202-203 and 119-150 (the explanation text is not followed here)
CreateExplanationSlide ==
    /\ build.pc = "explanation"
    /\ SaveSlide("slide4.png", << >>, "command")
    /\ UNCHANGED cfg
    /\ UNCHANGED <<poster_vars, run, gen>>

\* lines 207-244: output_path defaults to a file in the temporary directory;
\* the command is put together
BuildCommand ==
    /\ build.pc = "command"
    /\ LET out == IF build.args.output_path = NoPath
                  THEN Path(build.temp_path, "puzzle.mp4", build.args.puzzle_id)
                  ELSE build.args.output_path
           with_audio == build.args.audio_path # NoPath /\ Exists(fs, build.args.audio_path)
       IN  build' = [build EXCEPT
              !.pc = "encode",
              !.output_path = out,
              !.cmd = Command(VIDEO_FPS, build.countdown_fps, cfg, build.temp_path,
                              with_audio, build.args.audio_path, out)]
    /\ UNCHANGED <<cfg, fs>>
    /\ UNCHANGED <<poster_vars, run, gen>>

\* what the encoder can end with, and what it can have written to stderr
ExitCodes == {0, 1}
ErrorStreams == {"frame=  432 fps=0.0", "Invalid data found when processing input"}

\* lines 247-252: subprocess.run(cmd, check=True).  An encoder that exits
\* with 0 has written the output file; one that fails may leave a part of it.
RunEncoder ==
    /\ build.pc = "encode"
    /\ \E code \in ExitCodes, err \in ErrorStreams, wrote \in BOOLEAN :
          /\ code = 0 => wrote
          /\ fs' = IF wrote THEN Write(fs, File(build.output_path, "video", 0, code = 0)) ELSE fs
          /\ build' = [build EXCEPT
                !.engine = Append(@, [cmd |-> build.cmd, returncode |-> code, stderr |-> err]),
                !.pc = IF code = 0 THEN "copy" ELSE "exit",
                !.leaving = IF code = 0 THEN @
                            ELSE BuildRaised("RuntimeError", "Failed to create video: " \o err)]
    /\ UNCHANGED cfg
    /\ UNCHANGED <<poster_vars, run, gen>>

\* lines 254-259: an output in the temporary directory is copied to
\* "<puzzle_id>.mp4" in the working directory, and that path is returned
ReturnPath ==
    /\ build.pc = "copy"
    /\ IF build.output_path.dir = build.temp_path
       THEN LET final_path == Path(CWD, "puzzle.mp4", build.args.puzzle_id)
                made == CHOOSE g \in fs : g.path = build.output_path
            IN  /\ fs' = Write(fs, File(final_path, made.kind, made.shows, made.complete))
                /\ build' = [build EXCEPT !.pc = "exit", !.leaving = BuildReturned(final_path)]
       ELSE /\ UNCHANGED fs
            /\ build' = [build EXCEPT !.pc = "exit", !.leaving = BuildReturned(build.output_path)]
    /\ UNCHANGED cfg
    /\ UNCHANGED <<poster_vars, run, gen>>

\* (mutant) tempfile.mkdtemp() without a with block: nothing is removed
Cleanup_Nothing(files, dir) == files

\* TemporaryDirectory.__exit__: the directory goes with all that is in it
Cleanup(files, dir) == { g \in files : g.path.dir # dir }

\* line 191: the with block is left, by return or by exception
ExitTempDir ==
    /\ build.pc = "exit"
    /\ fs' = Cleanup(fs, build.temp_path)
    /\ build' = [build EXCEPT !.pc = "done", !.result = build.leaving]
    /\ UNCHANGED cfg
    /\ UNCHANGED <<poster_vars, run, gen>>

\* the caller has the path or the exception; the next call can start
BuildDone ==
    /\ build.pc = "done"
    /\ build' = [NoBuild EXCEPT !.n = build.n, !.intro = build.intro]
    /\ UNCHANGED <<cfg, fs>>
    /\ UNCHANGED <<poster_vars, run, gen>>

\* Calls of build_video, one after the other, with every kind of arguments
\* under one of the configurations, with or without the audio file in place.
InitBuild ==
    /\ InitPoster
    /\ InitRun
    /\ InitGen
    /\ cfg \in Configs
    /\ fs \in {{}, {File(AUDIO_PATH, "audio", 0, TRUE)}}
    /\ build = NoBuild

NextBuild ==
    \/ BuildVideo(BuildArgsSet)
    \/ CreateIntroSlide
    \/ CreateCountdownFrames
    \/ CreateAnswerSlide
    \/ CreateExplanationSlide
    \/ BuildCommand
    \/ RunEncoder
    \/ ReturnPath
    \/ ExitTempDir
    \/ BuildDone

SpecBuild == InitBuild /\ [][NextBuild]_vars

\* Calls of build_video, one after the other, with every answer and every
\* question text, under the configuration as shipped.
NextSlides ==
    \/ BuildVideo(SlideArgsSet)
    \/ CreateIntroSlide
    \/ CreateCountdownFrames
    \/ CreateAnswerSlide
    \/ CreateExplanationSlide
    \/ BuildCommand
    \/ RunEncoder
    \/ ReturnPath
    \/ ExitTempDir
    \/ BuildDone

SpecSlides == Init /\ [][NextSlides]_vars

\* ---------------------------------------------------------------- run_pipeline
\* the decimal digits of a natural number
RECURSIVE Digits(_)
Digits(n) == IF n < 10 THEN << n >> ELSE Append(Digits(n \div 10), n % 10)

\* puzzle_generator.py line 192: the digits of f"puzzle_{n:03d}", filled
\* with zeros to three places
PuzzleIdDigits(n) ==
    LET d == Digits(n)
    IN  IF Len(d) >= 3 THEN d ELSE [i \in 1..(3 - Len(d)) |-> 0] \o d

\* line 62: int(match.group(1)) of the digits behind "puzzle_"
RECURSIVE IntOf(_)
IntOf(digits) ==
    IF digits = << >> THEN 0
    ELSE 10 * IntOf(SubSeq(digits, 1, Len(digits) - 1)) + digits[Len(digits)]

\* the numbers N of the files puzzle_N.* found in the three directories
UsedIndexes(files) ==
    { IntOf(PuzzleIdDigits(h.path.index)) : h \in { g \in files :
         g.path.dir \in {IMAGES_DIR, VIDEOS_DIR, METADATA_DIR} /\ g.path.index >= 1 } }

\* (mutant) the largest index itself, not one more
NextPuzzleIndex_Largest(files) ==
    LET used == UsedIndexes(files)
    IN  IF used = {} THEN 1 ELSE CHOOSE m \in used : \A k \in used : k <= m

\* asset_manager.get_next_puzzle_index: one more than the largest N of a
\* file puzzle_N.* in output/images, output/videos or output/metadata
NextPuzzleIndex(files) ==
    LET used == UsedIndexes(files)
    IN  IF used = {} THEN 1 ELSE (CHOOSE m \in used : \A k \in used : k <= m) + 1

\* asset_manager.get_video_path: output/videos/<id>.mp4
get_video_path(id) == Path(VIDEOS_DIR, "puzzle.mp4", id)

\* the files puzzle_N.* of the three output directories
OutputFiles(files) ==
    { h \in files : h.path.dir \in {IMAGES_DIR, VIDEOS_DIR, METADATA_DIR} /\ h.path.index >= 1 }

\* the members of a set of numbers in rising order
Sorted(S) ==
    CHOOSE q \in [1..Cardinality(S) -> S] :
        \A i, j \in 1..Cardinality(S) : i < j => q[i] < q[j]

\* generate_puzzles, lines 184-203: the i-th puzzle gets the id
\* puzzle_{start_index + i}; those whose generation fails are left out
Generated(start_index, succeeded) == Sorted({ start_index + i : i \in succeeded })

\* the positions of run_pipeline inside the loop over the puzzles
LoopPositions ==
    {"render", "save_image", "metadata_only", "build", "save_metadata", "post",
     "update_metadata", "drive", "drive_metadata"}

\* sys.exit(code)
Exit(code) == run' = [run EXCEPT !.pc = "exited", !.exit_code = code]

\* --count is any integer (argparse type=int, line 231): range(count) is
\* empty for a count below 1
Counts == (0 - 1)..MaxPuzzles

\* lines 72-121: the components are set up and the puzzles generated
RunPipeline ==
    /\ run.pc = "idle"
    /\ \E skip, post, drive, token, available \in BOOLEAN :
          IF post /\ ~token THEN Exit(1)
          ELSE IF drive /\ ~available THEN Exit(1)
          ELSE \E count \in Counts : \E succeeded \in SUBSET (0..(count - 1)) :
                  LET start_index == NextPuzzleIndex(fs)
                      puzzles == Generated(start_index, succeeded)
                  IN  run' = [run EXCEPT
                         !.opts = Options(skip, post, drive),
                         !.count = count,
                         !.start_index = start_index,
                         !.succeeded = succeeded,
                         !.before = OutputFiles(fs),
                         !.puzzles = puzzles,
                         !.stats = [NoStats EXCEPT !.generated = Len(puzzles)],
                         !.idx = IF puzzles = << >> THEN 0 ELSE 1,
                         !.item = IF puzzles = << >> THEN Item(0) ELSE Item(puzzles[1]),
                         !.pc = IF puzzles = << >> THEN "returned" ELSE "render"]
    /\ UNCHANGED <<cfg, fs, build>>
    /\ UNCHANGED <<poster_vars, gen>>

\* (mutant) the exception of one puzzle is raised again: the loop ends
NextItem_Abort(r) ==
    IF r.item.failed
    THEN [r EXCEPT !.done = Append(@, r.item), !.pc = "raised"]
    ELSE IF r.idx < Len(r.puzzles)
    THEN [r EXCEPT !.done = Append(@, r.item), !.idx = @ + 1,
                   !.item = Item(r.puzzles[r.idx + 1]), !.pc = "render"]
    ELSE [r EXCEPT !.done = Append(@, r.item), !.pc = "returned"]

\* lines 124 and 220: the iteration for one puzzle has ended; the loop goes
\* on with the next puzzle, or run_pipeline returns stats
NextItem(r) ==
    IF r.idx < Len(r.puzzles)
    THEN [r EXCEPT !.done = Append(@, r.item), !.idx = @ + 1,
                   !.item = Item(r.puzzles[r.idx + 1]), !.pc = "render"]
    ELSE [r EXCEPT !.done = Append(@, r.item), !.pc = "returned"]

\* lines 215-218: the outer except clause
Failed(r, at) ==
    NextItem([r EXCEPT !.stats.failed = @ + 1, !.item.failed = TRUE, !.item.at = at])

\* lines 174-218 behind save_metadata: on to the TikTok post, the Drive
\* upload, or the next puzzle
AfterPost(r) ==
    IF r.opts.upload_to_drive THEN [r EXCEPT !.pc = "drive"] ELSE NextItem(r)

AfterMetadata(r) ==
    IF r.opts.post_to_tiktok THEN [r EXCEPT !.pc = "post"] ELSE AfterPost(r)

\* line 130: renderer.render(puzzle)
Render ==
    /\ run.pc = "render"
    /\ \E ok \in BOOLEAN :
          run' = IF ok
                 THEN [run EXCEPT !.item.calls = Append(@, Call("render", NoPath, "returned")),
                                  !.pc = "save_image"]
                 ELSE Failed([run EXCEPT !.item.calls = Append(@, Call("render", NoPath, "raised"))],
                             "render")
    /\ UNCHANGED <<cfg, fs, build>>
    /\ UNCHANGED <<poster_vars, gen>>

\* lines 131-132: asset_manager.save_image
SaveImage ==
    /\ run.pc = "save_image"
    /\ \E ok \in BOOLEAN :
          IF ok
          THEN /\ fs' = Write(fs, File(Path(IMAGES_DIR, "puzzle.png", run.item.id), "image", 0, TRUE))
               /\ run' = [run EXCEPT !.stats.rendered = @ + 1,
                                     !.pc = IF run.opts.skip_video THEN "metadata_only" ELSE "build"]
          ELSE /\ UNCHANGED fs
               /\ run' = Failed(run, "save_image")
    /\ UNCHANGED <<cfg, build>>
    /\ UNCHANGED <<poster_vars, gen>>

\* asset_manager.save_metadata writes output/metadata/<id>.json
SavedMetadata(files, id) ==
    Write(files, File(Path(METADATA_DIR, "puzzle.json", id), "metadata", 0, TRUE))

\* lines 141-145: with skip_video the metadata is saved and the loop continues
SaveMetadataOnly ==
    /\ run.pc = "metadata_only"
    /\ \E ok \in BOOLEAN :
          IF ok
          THEN fs' = SavedMetadata(fs, run.item.id) /\ run' = NextItem(run)
          ELSE UNCHANGED fs /\ run' = Failed(run, "save_metadata")
    /\ UNCHANGED <<cfg, build>>
    /\ UNCHANGED <<poster_vars, gen>>

\* How a build_video call for output/videos/<id>.mp4 ends: the path is
\* returned and the video is there, or an exception is raised, with or
\* without a part of the video left behind.
BuildOutcomes ==
    { [outcome |-> "returned", wrote |-> TRUE], [outcome |-> "raised", wrote |-> TRUE],
      [outcome |-> "raised", wrote |-> FALSE] }

\* lines 149-161: video_builder.build_video
BuildVideoCall ==
    /\ run.pc = "build"
    /\ \E o \in BuildOutcomes :
          LET output_path == get_video_path(run.item.id)
              called == [run EXCEPT !.item.calls = Append(@, Call("build_video", output_path, o.outcome))]
          IN  /\ fs' = IF o.wrote
                       THEN Write(fs, File(output_path, "video", 0, o.outcome = "returned"))
                       ELSE fs
              /\ run' = IF o.outcome = "returned"
                        THEN [called EXCEPT !.item.final_video_path = output_path,
                                            !.stats.videos_created = @ + 1,
                                            !.pc = "save_metadata"]
                        ELSE Failed(called, "build_video")
    /\ UNCHANGED <<cfg, build>>
    /\ UNCHANGED <<poster_vars, gen>>

\* lines 165-172: the metadata with video_path and video_duration is saved
SaveMetadata ==
    /\ run.pc = "save_metadata"
    /\ \E ok \in BOOLEAN :
          IF ok
          THEN fs' = SavedMetadata(fs, run.item.id) /\ run' = AfterMetadata(run)
          ELSE UNCHANGED fs /\ run' = Failed(run, "save_metadata")
    /\ UNCHANGED <<cfg, build>>
    /\ UNCHANGED <<poster_vars, gen>>

\* (mutant) a failed post ends the iteration: no Drive upload
PostFailed_SkipsDrive(r) ==
    NextItem([r EXCEPT !.stats.post_failed = @ + 1, !.item.post = "failed"])

\* lines 197-199: the inner except clause of the TikTok post
PostFailed(r) ==
    AfterPost([r EXCEPT !.stats.post_failed = @ + 1, !.item.post = "failed"])

\* lines 175-185: tiktok_poster.post_video returns its result or raises
PostVideoCall ==
    /\ run.pc = "post"
    /\ \E ok \in BOOLEAN :
          LET called == [run EXCEPT !.item.calls = Append(@,
                             Call("post_video", run.item.final_video_path,
                                  IF ok THEN "returned" ELSE "raised"))]
          IN  run' = IF ok THEN [called EXCEPT !.pc = "update_metadata"] ELSE PostFailed(called)
    /\ UNCHANGED <<cfg, fs, build>>
    /\ UNCHANGED <<poster_vars, gen>>

\* lines 188-195: asset_manager.update_metadata, inside the same try, and
\* stats.posted += 1
UpdateMetadata ==
    /\ run.pc = "update_metadata"
    /\ \E ok \in BOOLEAN :
          IF ok
          THEN /\ fs' = SavedMetadata(fs, run.item.id)
               /\ run' = AfterPost([run EXCEPT !.stats.posted = @ + 1, !.item.post = "posted"])
          ELSE /\ UNCHANGED fs
               /\ run' = PostFailed(run)
    /\ UNCHANGED <<cfg, build>>
    /\ UNCHANGED <<poster_vars, gen>>

\* lines 209-213: no file id, or an exception
DriveFailed(r) ==
    NextItem([r EXCEPT !.stats.drive_failed = @ + 1, !.item.drive = "failed"])

\* lines 202-207: drive_uploader.upload_video returns a file id or None, or raises
DriveUpload ==
    /\ run.pc = "drive"
    /\ \E fid \in BOOLEAN :
          LET called == [run EXCEPT !.item.calls = Append(@,
                             Call("upload_video", run.item.final_video_path,
                                  IF fid THEN "returned" ELSE "failed"))]
          IN  run' = IF fid
                     THEN [called EXCEPT !.stats.drive_uploaded = @ + 1, !.item.drive = "uploaded",
                                         !.pc = "drive_metadata"]
                     ELSE DriveFailed(called)
    /\ UNCHANGED <<cfg, fs, build>>
    /\ UNCHANGED <<poster_vars, gen>>

\* line 208: asset_manager.update_metadata with the file id, inside the try
DriveMetadata ==
    /\ run.pc = "drive_metadata"
    /\ \E ok \in BOOLEAN :
          IF ok
          THEN fs' = SavedMetadata(fs, run.item.id) /\ run' = NextItem(run)
          ELSE UNCHANGED fs /\ run' = DriveFailed(run)
    /\ UNCHANGED <<cfg, build>>
    /\ UNCHANGED <<poster_vars, gen>>

\* One call of run_pipeline with every combination of flags, in which every
\* step of every puzzle can succeed or raise.
NextPipeline ==
    \/ RunPipeline
    \/ Render
    \/ SaveImage
    \/ SaveMetadataOnly
    \/ BuildVideoCall
    \/ SaveMetadata
    \/ PostVideoCall
    \/ UpdateMetadata
    \/ DriveUpload
    \/ DriveMetadata

SpecPipeline == Init /\ [][NextPipeline]_vars

\* The process has ended and the pipeline is started again on the same
\* output directory: a new process, whose run_pipeline finds the files the
\* earlier runs left.
NewRun ==
    /\ run.pc \in {"returned", "exited"}
    /\ run.runs + 1 < MaxRuns
    /\ run' = [NoRun EXCEPT !.runs = run.runs + 1]
    /\ UNCHANGED <<cfg, fs, build>>
    /\ UNCHANGED <<poster_vars, gen>>

NextRuns ==
    \/ NewRun
    \/ NextPipeline

\* a sequence of at most MaxRuns pipeline runs on one output directory
SpecRuns == Init /\ [][NextRuns]_vars

\* ------------------------------------------------------------- generate_puzzle
\* lines 119-128: the prompts are made and the loop is entered
GeneratePuzzle ==
    /\ gen.pc = "idle"
    /\ \E id \in PuzzleIdArgs :
          gen' = [NoGen EXCEPT !.pc = "call", !.puzzle_id = id, !.attempt = 1]
    /\ UNCHANGED <<poster_vars, builder_vars, run>>

\* (mutant) one attempt more: range(1, max_retries + 2)
Continue_OneMore(g, how) ==
    IF g.attempt < OPENAI_MAX_RETRIES + 1
    THEN [g EXCEPT !.log = Append(@, how), !.attempt = @ + 1, !.pc = "call"]
    ELSE [g EXCEPT !.log = Append(@, how), !.pc = "returned", !.returned = "None"]

\* lines 128, 141, 152-157 and 159-161: "continue": the next attempt of
\* range(1, max_retries + 1), or None when there is none left
Continue(g, how) ==
    IF g.attempt < OPENAI_MAX_RETRIES
    THEN [g EXCEPT !.log = Append(@, how), !.attempt = @ + 1, !.pc = "call"]
    ELSE [g EXCEPT !.log = Append(@, how), !.pc = "returned", !.returned = "None"]

\* lines 133 and 93-107: _call_llm returns the text of the answer, or
\* raises what the client raised
CallLLM ==
    /\ gen.pc = "call"
    /\ LET g == [gen EXCEPT !.calls = @ + 1, !.response = NoAnswer, !.data = NoRecord,
                            !.verdict = NoVerdict]
       IN  \/ gen' = Continue(g, "call error")
           \/ \E r \in ServiceAnswers : gen' = [g EXCEPT !.response = r, !.pc = "parse"]
    /\ UNCHANGED <<poster_vars, builder_vars, run>>

\* lines 136-145: json.loads: a text that is no JSON raises JSONDecodeError,
\* None raises TypeError; puzzle_id, when given, replaces the id (which
\* raises TypeError for a JSON array)
ParseJSON ==
    /\ gen.pc = "parse"
    /\ gen' = IF gen.response.kind = "text" THEN Continue(gen, "parse error")
              ELSE IF gen.response.kind = "None" THEN Continue(gen, "TypeError")
              ELSE IF gen.response.kind = "array"
              THEN IF gen.puzzle_id # 0 THEN Continue(gen, "TypeError")
                   ELSE Continue(gen, "validation error")
              ELSE [gen EXCEPT
                      !.data = IF gen.puzzle_id # 0
                               THEN [gen.response.data EXCEPT !.id = IdValue(gen.puzzle_id)]
                               ELSE gen.response.data,
                      !.pc = "validate"]
    /\ UNCHANGED <<poster_vars, builder_vars, run>>

\* lines 148-150 and 152-154: validate_puzzle returns the puzzle, which is
\* returned, or raises ValueError
Validate ==
    /\ gen.pc = "validate"
    /\ LET verdict == validate_puzzle(gen.data)
           g == [gen EXCEPT !.verdict = verdict]
       IN  gen' = IF verdict.raised THEN Continue(g, "validation error")
                  ELSE [g EXCEPT !.log = Append(@, "ok"), !.pc = "returned",
                                 !.returned = "puzzle", !.puzzle = verdict.puzzle]
    /\ UNCHANGED <<poster_vars, builder_vars, run>>

\* the caller has the puzzle or None; the next call can start
GenerateDone ==
    /\ gen.pc = "returned"
    /\ gen' = NoGen
    /\ UNCHANGED <<poster_vars, builder_vars, run>>

\* Calls of generate_puzzle, one after the other, with every answer of the
\* service at every attempt.
NextGenerate ==
    \/ GeneratePuzzle
    \/ CallLLM
    \/ ParseJSON
    \/ Validate
    \/ GenerateDone

SpecGenerate == Init /\ [][NextGenerate]_vars

\* ------------------------------------------------------------------------ main
\* (mutant) a failed post turns the exit code into 1
ExitCode_PostFailedCounts(stats, skip_video) ==
    IF (stats.videos_created > 0 \/ (skip_video /\ stats.rendered > 0)) /\ stats.post_failed = 0
    THEN 0 ELSE 1

\* lines 308-313: the exit code after run_pipeline returned stats
ExitCode(stats, skip_video) ==
    IF stats.videos_created > 0 \/ (skip_video /\ stats.rendered > 0) THEN 0 ELSE 1

\* lines 279-284: validate_config raises ValueError (no OPENAI_API_KEY) and
\* main leaves with sys.exit(1); otherwise main goes on to call run_pipeline
Main ==
    /\ run.pc = "main"
    /\ \E valid \in BOOLEAN :
          run' = IF valid THEN [run EXCEPT !.pc = "idle", !.caller = "main"]
                 ELSE [run EXCEPT !.pc = "exited", !.caller = "main", !.exit_code = 1]
    /\ UNCHANGED <<cfg, fs, build>>
    /\ UNCHANGED <<poster_vars, gen>>

\* lines 74-114 called from line 293: a constructor of lines 77-101 or
\* generate_puzzles raises (VideoBuilder.__init__ finds no ffmpeg,
\* TikTokPoster.__init__ no token); lines 318-320 turn it into sys.exit(1)
SetupRaises ==
    /\ run.pc = "idle" /\ run.caller = "main"
    /\ run' = [run EXCEPT !.pc = "exited", !.exit_code = 1]
    /\ UNCHANGED <<cfg, fs, build>>
    /\ UNCHANGED <<poster_vars, gen>>

\* lines 315-317: a KeyboardInterrupt reaches main from any point of
\* run_pipeline, no except clause of the loop catching it
Interrupt ==
    /\ run.caller = "main"
    /\ run.pc \in {"idle", "returned"} \cup LoopPositions
    /\ run' = [run EXCEPT !.pc = "exited", !.exit_code = 130, !.interrupted = TRUE]
    /\ UNCHANGED <<cfg, fs, build>>
    /\ UNCHANGED <<poster_vars, gen>>

\* lines 302-313: the summary is logged and the exit code chosen
MainExit ==
    /\ run.pc = "returned" /\ run.caller = "main"
    /\ run' = [run EXCEPT !.pc = "exited",
                          !.exit_code = ExitCode(run.stats, run.opts.skip_video)]
    /\ UNCHANGED <<cfg, fs, build>>
    /\ UNCHANGED <<poster_vars, gen>>

\* the process is started: main has parsed its arguments
InitMain == InitPoster /\ InitBuilder /\ InitGen /\ run = [NoRun EXCEPT !.pc = "main"]

NextMain ==
    \/ Main
    \/ SetupRaises
    \/ Interrupt
    \/ MainExit
    \/ NextPipeline

SpecMain == InitMain /\ [][NextMain]_vars

\* ------------------------------------------------------------------ claims
\* the entries of the log that belong to poster p
LogOf(p) == { i \in DOMAIN init_log : init_log[i].poster = p }

\* the recorded initializations of the posters Ps that are less than a window before time T
InWindow(Ps, T) ==
    { i \in DOMAIN init_log :
        init_log[i].poster \in Ps /\ T - init_log[i].t < TIKTOK_RATE_LIMIT_WINDOW }

\* the same, counted among the entries before the i-th
InWindowBefore(i, T) ==
    { j \in 1..(i - 1) :
        /\ init_log[j].poster = init_log[i].poster
        /\ T - init_log[j].t < TIKTOK_RATE_LIMIT_WINDOW }

\* C1: for one poster used sequentially, at every moment at most
\* rate_limit_per_minute recorded timestamps lie less than rate_limit_window
\* before now, in the list and among all timestamps ever recorded; and the
\* window that ends at any recorded initialization holds at most that many.
C1_WindowNeverExceeded ==
    \A p \in Posters :
        /\ Cardinality({ i \in DOMAIN last_init_calls[p] :
                clock - last_init_calls[p][i] < TIKTOK_RATE_LIMIT_WINDOW })
              <= TIKTOK_RATE_LIMIT_PER_MINUTE
        /\ Cardinality(InWindow({p}, clock)) <= TIKTOK_RATE_LIMIT_PER_MINUTE
        /\ \A i \in LogOf(p) :
              Cardinality(InWindowBefore(i, init_log[i].t)) + 1 <= TIKTOK_RATE_LIMIT_PER_MINUTE

\* a full window, after a call that had to wait for it
C1_Witness ==
    /\ Len(init_log) > TIKTOK_RATE_LIMIT_PER_MINUTE
    /\ init_log[Len(init_log)].slept = 1
    /\ Cardinality(InWindow({1}, clock)) = TIKTOK_RATE_LIMIT_PER_MINUTE

\* the oldest recorded timestamp in the window the i-th call found on entry
OldestBefore(i) ==
    LET W == InWindowBefore(i, init_log[i].entered)
    IN  init_log[CHOOSE j \in W : \A k \in W : j <= k].t

\* C2: a call that finds the window full on entry blocks, and the timestamp
\* it records is at least a window later than the oldest timestamp of that
\* window; a call that finds room does not block, so calls 1..limit never
\* do; when limit + 1 calls follow each other inside one window, the
\* (limit + 1)-th blocks until the first is a window old.
C2_BlocksUntilOldestLeaves ==
    /\ \A i \in DOMAIN init_log :
          LET e == init_log[i]
              held == Cardinality(InWindowBefore(i, e.entered))
          IN  /\ held >= TIKTOK_RATE_LIMIT_PER_MINUTE =>
                    e.slept = 1 /\ e.t - OldestBefore(i) >= TIKTOK_RATE_LIMIT_WINDOW
              /\ held < TIKTOK_RATE_LIMIT_PER_MINUTE => e.slept = 0 /\ e.t = e.entered
              /\ i <= TIKTOK_RATE_LIMIT_PER_MINUTE => e.slept = 0
    /\ LET n == TIKTOK_RATE_LIMIT_PER_MINUTE + 1
       IN  (Len(init_log) >= n /\ init_log[n].entered - init_log[1].t < TIKTOK_RATE_LIMIT_WINDOW)
              => /\ init_log[n].slept = 1
                 /\ init_log[n].t - init_log[1].t >= TIKTOK_RATE_LIMIT_WINDOW

\* nine calls in a burst (the clock moves only while a call sleeps): the 7th blocked
C2_Witness ==
    /\ Len(init_log) = 9
    /\ \A i \in 2..9 : init_log[i].entered = init_log[i - 1].t
    /\ init_log[7].slept = 1
    /\ \A i \in (1..9) \ {7} : init_log[i].slept = 0

\* C3: a call of _rate_limit_check sleeps at most once and asks for at most
\* rate_limit_window + 1 seconds, and every call that enters it records a
\* timestamp and goes on to the init request.
C3_WaitBoundedAndEnds ==
    /\ [](\A th \in Threads :
            /\ frame[th].sleeps <= 1
            /\ frame[th].sleep_req <= TIKTOK_RATE_LIMIT_WINDOW + SLEEP_BUFFER)
    /\ \A th \in Threads : (pc[th] = "rate_limit_check") ~> (pc[th] = "init")

\* a call that slept the longest possible time, once, and has recorded its timestamp
C3_Witness ==
    /\ pc[1] = "init"
    /\ frame[1].sleeps = 1
    /\ frame[1].sleep_req = TIKTOK_RATE_LIMIT_WINDOW + SLEEP_BUFFER
    /\ last_init_calls[1][Len(last_init_calls[1])] = frame[1].now

\* C4: the window is process-wide: the initializations recorded through all
\* posters of the process, taken together, never number more than
\* rate_limit_per_minute inside one trailing window.
C4_ProcessWideWindow ==
    Cardinality(InWindow(Posters, clock)) <= TIKTOK_RATE_LIMIT_PER_MINUTE

\* the timestamps of the list of poster p that lie inside the trailing window
ListInWindow(p) ==
    { i \in DOMAIN last_init_calls[p] :
        clock - last_init_calls[p][i] < TIKTOK_RATE_LIMIT_WINDOW }

\* no timestamp that _rate_limit_check recorded inside the trailing window is missing from the list
NoTimestampLost == \A p \in Posters : Cardinality(ListInWindow(p)) >= Cardinality(InWindow({p}, clock))

\* the list holds at most rate_limit_per_minute timestamps inside the trailing window
ListWithinLimit == \A p \in Posters : Cardinality(ListInWindow(p)) <= TIKTOK_RATE_LIMIT_PER_MINUTE

\* C5: read-prune-check-append runs under one guard: with threads calling
\* post_video concurrently on one window, no recorded timestamp is lost and
\* the window never holds more than rate_limit_per_minute timestamps inside
\* the trailing window.
C5_GuardedWindow == NoTimestampLost /\ ListWithinLimit

\* ---------------------------------------------------- the publish protocol
\* the kinds of the requests of a log, in the order sent
Kinds(log) == [i \in DOMAIN log |-> log[i].kind]

IsPrefix(s, t) == Len(s) <= Len(t) /\ \A i \in DOMAIN s : s[i] = t[i]

\* the logs of post_video calls (a query_creator_info call logs one "query")
PostLogs == { th \in Threads : reqs[th] # <<>> /\ reqs[th][1].kind # "query" }

\* the answer is a 2xx answer whose body carries both fields
AnswerHasInitFields(resp) ==
    /\ resp.transport = "ok" /\ resp.json /\ resp.data.present
    /\ resp.data.publish_id # NONE /\ resp.data.upload_url # NONE

\* the answer to the PUT is a 200 or a 201
AnswerUploaded(resp) == resp.transport = "ok" /\ resp.http \in {200, 201}

\* C6: the requests of one post_video call are init, upload, status in that
\* order, none twice; the upload is sent only after an init answer that
\* carried publish_id and upload_url, to that upload_url; the status fetch
\* only after a successful upload, with that publish_id; a call that
\* returns has sent all three.
C6_PhasesStrictlyOrdered ==
    \A th \in PostLogs :
        LET log == reqs[th]
        IN  /\ IsPrefix(Kinds(log), <<"init", "upload", "status">>)
            /\ Len(log) >= 2 =>
                  /\ AnswerHasInitFields(log[1].resp)
                  /\ log[2].target = log[1].resp.data.upload_url
            /\ Len(log) >= 3 =>
                  /\ AnswerUploaded(log[2].resp)
                  /\ log[3].target = log[1].resp.data.publish_id
            /\ result[th].outcome = "returned" => Len(log) = 3
            /\ pc[th] = "upload" => Len(log) = 1
            /\ pc[th] = "status" => Len(log) = 2

\* a call that went through the three phases and returned
C6_Witness ==
    /\ pc[1] = "done" /\ result[1].outcome = "returned"
    /\ Kinds(reqs[1]) = <<"init", "upload", "status">>
    /\ reqs[1][2].target = "url_1" /\ reqs[1][3].target = "v_pub_2"

\* a failure as the remote side shows it: no answer, a non-success HTTP
\* status, or (API calls) an error envelope with a code other than "ok"
AnswerFailed(sent) ==
    IF sent.kind = "upload"
    THEN ~AnswerUploaded(sent.resp)
    ELSE \/ sent.resp.transport # "ok"
         \/ sent.resp.json /\ sent.resp.error \notin {NONE, "nocode", "ok"}

\* C7: a failed request is the last request of its call: the call has ended,
\* it raised and gave no result, and no request was sent twice.
C7_FailureAborts ==
    \A th \in PostLogs :
        LET log == reqs[th]
        IN  /\ \A i \in DOMAIN log :
                  AnswerFailed(log[i]) =>
                      /\ i = Len(log)
                      /\ pc[th] = "done"
                      /\ result[th].outcome = "raised"
                      /\ result[th].publish_id = NONE /\ result[th].status = NONE
            /\ \A i, j \in DOMAIN log : log[i].kind = log[j].kind => i = j
            /\ result[th].outcome = "returned" => \A i \in DOMAIN log : ~AnswerFailed(log[i])

\* a call whose status fetch was answered 200 with an error envelope
C7_Witness ==
    /\ pc[1] = "done" /\ result[1].outcome = "raised"
    /\ Len(reqs[1]) = 3
    /\ reqs[1][3].resp.transport = "ok" /\ reqs[1][3].resp.error = "rate_limit_exceeded"

\* C8: a post_video call that returns has sent exactly one status fetch, as
\* the request right after the upload and the last one; it returns the
\* publish_id of the init answer and the status that fetch reported,
\* whatever it is.
C8_SingleStatusPoll ==
    \A th \in PostLogs :
        LET log == reqs[th]
            polls == { i \in DOMAIN log : log[i].kind = "status" }
        IN  /\ Cardinality(polls) <= 1
            /\ result[th].outcome = "returned" =>
                  /\ polls = {Len(log)}
                  /\ log[Len(log) - 1].kind = "upload"
                  /\ pc[th] = "done"
                  /\ result[th].publish_id = log[1].resp.data.publish_id
                  /\ log[Len(log)].resp.data.status # NONE =>
                        result[th].status = log[Len(log)].resp.data.status

\* a call that returned the non-final status of its one fetch
C8_Witness ==
    /\ pc[1] = "done" /\ result[1].outcome = "returned"
    /\ Len(reqs[1]) = 3
    /\ reqs[1][3].resp.data.status = "PROCESSING_UPLOAD"
    /\ result[1].status = "PROCESSING_UPLOAD"

C10_EnvelopeDecides ==
    \A th \in Threads : \A i \in DOMAIN reqs[th] :
        LET sent == reqs[th][i]
        IN  (sent.kind \in {"query", "init", "status"}
                /\ sent.resp.transport = "ok" /\ sent.resp.json) =>
              /\ sent.resp.error \notin {NONE, "nocode", "ok"} =>
                    /\ sent.mr.raised /\ sent.mr.value = NoBody
                    /\ pc[th] = "done" /\ result[th].outcome = "raised"
              /\ sent.resp.error \in {NONE, "ok"} =>
                    /\ ~sent.mr.raised
                    /\ sent.mr.value.error = sent.resp.error
                    /\ sent.mr.value.data = sent.resp.data

\* a creator-info query answered 200 with an error envelope
C10_Witness ==
    /\ pc[1] = "done" /\ result[1].outcome = "raised"
    /\ Len(reqs[1]) = 1 /\ reqs[1][1].kind = "query"
    /\ reqs[1][1].resp.http = 200 /\ reqs[1][1].resp.error = "rate_limit_exceeded"

\* the threads whose call has sent its init request
InitSent == { th \in Threads : reqs[th] # <<>> /\ reqs[th][1].kind = "init" }

\* C11: when post_video is given a title (and no title by way of the
\* overrides), the title in the body of the init request is the first
\* MAX_CAPTION_LENGTH characters of a longer title, of exactly that length,
\* and a non-empty title within the limit unchanged; a caption of 2300
\* characters goes out with 2200; cutting the title sent once more changes
\* nothing, so the caption run_pipeline has already cut goes out as it is.
C11_CaptionTruncated ==
    \A th \in InitSent :
        LET title == frame[th].args.title
            sent == reqs[th][1].data.post_info
        IN  (Truthy(title) /\ ~frame[th].args.post_info_overrides.has_title) =>
               /\ sent.has_title
               /\ Len(title.text) > MAX_CAPTION_LENGTH =>
                     /\ Len(sent.title) = MAX_CAPTION_LENGTH
                     /\ IsPrefix(sent.title, title.text)
               /\ Len(title.text) <= MAX_CAPTION_LENGTH => sent.title = title.text
               /\ Len(title.text) = 2300 => Len(sent.title) = 2200
               /\ Caption(sent.title) = sent.title
               /\ \A n \in TitleLengths :
                     (/\ Len(title.text) = (IF n < MAX_CAPTION_LENGTH THEN n ELSE MAX_CAPTION_LENGTH)
                      /\ title.text = PipelineCaption(String(Text(0, n)))) =>
                        sent.title = Slice(Text(0, n), MAX_CAPTION_LENGTH)

\* an init request that went out for a caption of 2300 characters
C11_Witness ==
    /\ 1 \in InitSent
    /\ frame[1].args.title = String(Text(0, 2300))
    /\ ~frame[1].args.post_info_overrides.given
    /\ Len(reqs[1][1].data.post_info.title) = MAX_CAPTION_LENGTH

\* C12: the title in the body of every init request has at most
\* MAX_CAPTION_LENGTH characters, whatever title and post_info_overrides
\* post_video was called with.
C12_EveryTitleWithinBudget ==
    \A th \in InitSent :
        Len(reqs[th][1].data.post_info.title) <= MAX_CAPTION_LENGTH

\* C13: the total_chunk_count of an init request is the ceiling of
\* video_size / chunk_size, both as sent in the same body and as post_video
\* found them: for video_size >= 1 and chunk_size >= 1,
\* (count - 1) * chunk_size < video_size <= count * chunk_size; and 52428800
\* bytes in chunks of 10485760 are 5 chunks.
C13_ChunkCountIsCeiling ==
    \A th \in InitSent :
        LET si == reqs[th][1].data.source_info
            n == si.video_size
            c == si.chunk_size
            k == si.total_chunk_count
        IN  /\ n = frame[th].args.video_size /\ c = frame[th].args.chunk_size
            /\ (n >= 1 /\ c >= 1) => ((k - 1) * c < n /\ n <= k * c)
            /\ (n = 52428800 /\ c = 10485760) => k = 5

\* an init request for a file one byte longer than five chunks: six chunks
C13_Witness ==
    /\ 1 \in InitSent
    /\ reqs[1][1].data.source_info.video_size = 5 * TIKTOK_CHUNK_SIZE + 1
    /\ reqs[1][1].data.source_info.chunk_size = TIKTOK_CHUNK_SIZE
    /\ reqs[1][1].data.source_info.total_chunk_count = 6

\* the PUT requests of a call
Uploads(log) == { i \in DOMAIN log : log[i].kind = "upload" }

\* C14: a call sends at most one PUT, and exactly one once it is past the
\* upload phase, whatever total_chunk_count its init request declared; the
\* PUT goes to the upload_url of the init answer with Content-Length n and
\* Content-Range "bytes 0-(n-1)/n" for the video_size n >= 1 of the init
\* request; the call goes on to the status fetch only when the PUT was
\* answered with status 200 or 201, and otherwise raises.
C14_SinglePutWholeFile ==
    \A th \in InitSent :
        LET log == reqs[th]
            n == log[1].data.source_info.video_size
        IN  /\ Cardinality(Uploads(log)) <= 1
            /\ (Len(log) >= 3 \/ result[th].outcome = "returned") => Uploads(log) = {2}
            /\ \A i \in Uploads(log) :
                  /\ i = 2 /\ log[i].target = log[1].resp.data.upload_url
                  /\ n >= 1 =>
                        /\ log[i].headers.content_length = ToString(n)
                        /\ log[i].headers.content_range =
                               "bytes 0-" \o ToString(n - 1) \o "/" \o ToString(n)
                  /\ n = 52428800 =>
                        /\ log[i].headers.content_length = "52428800"
                        /\ log[i].headers.content_range = "bytes 0-52428799/52428800"
                  /\ n = 1 => log[i].headers.content_range = "bytes 0-0/1"
                  /\ IF log[i].resp.transport = "ok" /\ log[i].resp.http \in {200, 201}
                     THEN pc[th] = "done" => Len(log) = 3
                     ELSE /\ Len(log) = 2 /\ pc[th] = "done"
                          /\ result[th].outcome = "raised"
                          /\ result[th].exc = "RuntimeError"

\* a call that declared six chunks and returned after one PUT
C14_Witness ==
    /\ 1 \in InitSent
    /\ result[1].outcome = "returned"
    /\ reqs[1][1].data.source_info.total_chunk_count = 6
    /\ Uploads(reqs[1]) = {2}
    /\ reqs[1][2].headers.content_range = "bytes 0-52428800/52428801"

\* ---- how the encoder reads a command: the options between two inputs apply
\* to the input that follows them, those after the last input to the output
InputPositions(cmd) == { i \in DOMAIN cmd : cmd[i].word = "-i" }

\* the k-th "-i" of the command
InputAt(cmd, k) ==
    CHOOSE i \in InputPositions(cmd) :
        Cardinality({ j \in InputPositions(cmd) : j < i }) = k - 1

\* where the options of the input at i begin: behind the path of the input
\* before it, or behind the program name
OptionsStart(cmd, i) ==
    LET before == { j \in InputPositions(cmd) : j < i }
    IN  IF before = {} THEN 2 ELSE (CHOOSE j \in before : \A k \in before : k <= j) + 2

OptionPlaces(cmd, i, opt) == { k \in OptionsStart(cmd, i)..(i - 2) : cmd[k].word = opt }

HasOption(cmd, i, opt) == OptionPlaces(cmd, i, opt) # {}

OptionValue(cmd, i, opt) == cmd[(CHOOSE k \in OptionPlaces(cmd, i, opt) : TRUE) + 1].num

\* the output options: behind the path of the last input
OutputOptionPlaces(cmd, opt) ==
    { k \in (CHOOSE j \in InputPositions(cmd) : \A i \in InputPositions(cmd) : i <= j) + 2 .. Len(cmd) - 1 :
        cmd[k].word = opt }

\* the files an image sequence pattern stands for: numbered from 0 without a gap
FramesRead(files, pattern) ==
    LET there(i) == Exists(files, Path(pattern.dir, pattern.name, i))
    IN  Cardinality({ i \in 0..(MaxCountdown + 1) : \A j \in 0..i : there(j) })

\* the duration of the first, third and fourth input: their time bound
BoundOf(cmd, k) == OptionValue(cmd, InputAt(cmd, k), "-t")

\* the duration of the second input: its frames at its frame rate
RevealDuration(files, cmd) ==
    QDiv(Q(FramesRead(files, cmd[InputAt(cmd, 2) + 1].path), 1),
         OptionValue(cmd, InputAt(cmd, 2), "-framerate"))

\* C15: when the encoder is handed its command, the durations of the four
\* video inputs (time bound of the intro, frames of the reveal divided by
\* its frame rate, time bounds of answer and explanation) add up to the sum
\* of the four configured durations; the time bound behind the audio input,
\* when there is one, and the video_duration run_pipeline records are that
\* same value; 2.0, 8.0, 3.0 and 5.0 give 18.0.
C15_DurationsAddUp ==
    build.pc = "encode" =>
        LET cmd == build.cmd
            planned == QAdd(QAdd(QAdd(cfg.intro, cfg.puzzle), cfg.answer), cfg.explanation)
            handed == QAdd(QAdd(QAdd(BoundOf(cmd, 1), RevealDuration(fs, cmd)),
                                BoundOf(cmd, 3)), BoundOf(cmd, 4))
        IN  /\ handed = planned
            /\ VideoDuration(cfg) = planned
            /\ \A k \in OutputOptionPlaces(cmd, "-t") : cmd[k + 1].num = planned
            /\ Cardinality(InputPositions(cmd)) = 5 => OutputOptionPlaces(cmd, "-t") # {}
            /\ cfg = DefaultConfig => handed = Q(18, 1)

\* the shipped configuration, with an audio track
C15_Witness ==
    /\ build.pc = "encode"
    /\ cfg = DefaultConfig
    /\ Cardinality(InputPositions(build.cmd)) = 5
    /\ RevealDuration(fs, build.cmd) = Q(8, 1)

\* the countdown frames in the temporary directory of the call
FramesWritten == { g \in fs : g.path.dir = build.temp_path /\ g.kind = "frame" }

\* C16: once _create_countdown_frames has returned, the frames it wrote
\* are COUNTDOWN_START files with the indexes 0..COUNTDOWN_START-1, the i-th
\* showing COUNTDOWN_START - i (so from COUNTDOWN_START down to 1); the
\* frame rate of the reveal is their number divided by
\* SLIDE_PUZZLE_DURATION, so that frame rate times duration is
\* COUNTDOWN_START; 5 frames in 8.0 s are 0.625 frames per second.
C16_RevealFrameRate ==
    build.pc \in {"answer", "explanation", "command", "encode"} =>
        LET n == cfg.countdown_start
        IN  /\ Cardinality(FramesWritten) = n
            /\ Len(build.countdown_paths) = n
            /\ { g.path.index : g \in FramesWritten } = 0..(n - 1)
            /\ \A g \in FramesWritten :
                  /\ g.shows = n - g.path.index
                  /\ g.shows \in 1..n
                  /\ g.path = build.countdown_paths[g.path.index + 1]
            /\ build.countdown_fps = QDiv(Q(Cardinality(FramesWritten), 1), cfg.puzzle)
            /\ QMul(build.countdown_fps, cfg.puzzle) = Q(n, 1)
            /\ (n = 5 /\ cfg.puzzle = Q(8, 1)) => build.countdown_fps = Q(625, 1000)

\* the frames of the shipped configuration have been written
C16_Witness ==
    /\ build.pc = "answer"
    /\ cfg = DefaultConfig
    /\ Cardinality(FramesWritten) = COUNTDOWN_START
    /\ build.countdown_fps = Q(5, 8)

\* the commands of the call: the one about to be run and those that were run
Commands ==
    (IF build.pc = "encode" THEN {build.cmd} ELSE {})
       \cup { build.engine[r].cmd : r \in DOMAIN build.engine }

\* the inputs the encoder is told to repeat forever
Looped(cmd) == { i \in InputPositions(cmd) : HasOption(cmd, i, "-loop") }

\* C17: in every command of build_video the looped inputs are the three
\* slides (inputs 1, 3 and 4), each with a time bound among its own options
\* that is its configured duration and positive; so no looped input is
\* without a bound, and the other inputs are files or a finite sequence of
\* files.
C17_LoopedInputsBounded ==
    \A cmd \in Commands :
        /\ Looped(cmd) = { InputAt(cmd, 1), InputAt(cmd, 3), InputAt(cmd, 4) }
        /\ \A i \in Looped(cmd) :
              /\ Cardinality(OptionPlaces(cmd, i, "-t")) = 1
              /\ OptionValue(cmd, i, "-t").num > 0 /\ OptionValue(cmd, i, "-t").den > 0
        /\ cmd[InputAt(cmd, 1) + 1].path.name = "slide1.png" /\ BoundOf(cmd, 1) = cfg.intro
        /\ cmd[InputAt(cmd, 3) + 1].path.name = "slide3.png" /\ BoundOf(cmd, 3) = cfg.answer
        /\ cmd[InputAt(cmd, 4) + 1].path.name = "slide4.png" /\ BoundOf(cmd, 4) = cfg.explanation
        /\ \A i \in InputPositions(cmd) \ Looped(cmd) :
              cmd[i + 1].path.index = PATTERN =>
                 FramesRead(fs, cmd[i + 1].path) <= cfg.countdown_start

\* the encoder has run on a command with the three slides and an audio file
C17_Witness ==
    /\ build.engine # << >>
    /\ Cardinality(Looped(build.engine[1].cmd)) = 3
    /\ Cardinality(InputPositions(build.engine[1].cmd)) = 5
    /\ BoundOf(build.engine[1].cmd, 4) = Q(7, 1)

\* the path a successful call returns: the output_path it was given, or
\* "<puzzle_id>.mp4" in the working directory
PathToReturn ==
    IF build.args.output_path = NoPath
    THEN Path(CWD, "puzzle.mp4", build.args.puzzle_id)
    ELSE build.args.output_path

\* what a finished call that ran the encoder once has to have ended with
EndsAsEncoderDid ==
    LET enc == build.engine[1]
    IN  IF enc.returncode = 0
        THEN build.result = BuildReturned(PathToReturn)
        ELSE /\ build.result.outcome = "raised"
             /\ build.result.exc = "RuntimeError"
             /\ build.result.message = "Failed to create video: " \o enc.stderr
             /\ build.result.path = NoPath

TempFiles == { g \in fs : g.path.dir.root = "tmp" }

\* C19: when a build_video call has returned or raised (after the encoder
\* failed, after a slide or a frame could not be created, or after
\* success), and between calls, no file of a temporary directory exists;
\* and the path a call has returned is that of an existing file, the video
\* the encoder finished.
C19_TempFilesRemoved ==
    build.pc \in {"idle", "done"} =>
        /\ TempFiles = {}
        /\ build.result.outcome = "returned" =>
              /\ Exists(fs, build.result.path)
              /\ \A g \in fs : g.path = build.result.path => (g.kind = "video" /\ g.complete)

\* a call that had its output in the temporary directory has returned the
\* copy
C19_Witness ==
    /\ build.pc = "done"
    /\ build.args.output_path = NoPath
    /\ build.result.outcome = "returned"
    /\ build.output_path.dir = TempDir(build.n)
    /\ Exists(fs, build.result.path)
    /\ TempFiles = {}

\* the puzzles whose iteration has begun, in the order of their iterations
Processed == IF run.pc \in LoopPositions THEN Append(run.done, run.item) ELSE run.done

\* how many of a sequence of items satisfy Test
HowMany(items, Test(_)) == Cardinality({ i \in 1..Len(items) : Test(items[i]) })

ItemFailed(it) == it.failed

ItemPostFailed(it) == it.post = "failed"

\* C20: a failure while rendering, saving or encoding one puzzle never ends
\* the run.  run_pipeline leaves only by sys.exit before the loop or by
\* returning stats; the iterations go through the generated puzzles in order,
\* one iteration each, whatever failed before; when stats is returned every
\* generated puzzle has had its iteration; stats.failed counts the puzzles
\* that failed and stats.post_failed those whose TikTok post failed, and a
\* puzzle whose post failed is not counted as failed.
C20_FailuresNeverAbort ==
    /\ run.pc \in {"idle", "exited", "returned"} \cup LoopPositions
    /\ run.pc \in {"exited", "returned"} \/ ENABLED NextPipeline
    /\ run.pc = "exited" => run.done = << >> /\ run.puzzles = << >>
    /\ Len(Processed) <= Len(run.puzzles)
    /\ \A i \in 1..Len(Processed) : Processed[i].id = run.puzzles[i]
    /\ \A i, j \in 1..Len(run.puzzles) : i # j => run.puzzles[i] # run.puzzles[j]
    /\ run.pc \in LoopPositions => Len(Processed) = run.idx
    /\ run.pc = "returned" =>
          /\ Len(run.done) = Len(run.puzzles)
          /\ run.stats.generated = Len(run.puzzles)
    /\ run.stats.failed = HowMany(run.done, ItemFailed)
    /\ run.stats.post_failed = HowMany(Processed, ItemPostFailed)
    /\ \A i \in 1..Len(Processed) : Processed[i].post = "failed" => ~Processed[i].failed

\* a returned run of three puzzles: the first failed in build_video, the
\* post of the second failed, and the third was still posted
C20_Witness ==
    /\ run.pc = "returned"
    /\ Len(run.done) = 3
    /\ run.done[1].failed /\ run.done[1].at = "build_video"
    /\ run.done[2].post = "failed"
    /\ run.done[3].post = "posted"
    /\ run.stats.failed = 1 /\ run.stats.post_failed = 1 /\ run.stats.posted = 1

\* the output that counts as success at line 310
SomeOutput == run.stats.videos_created > 0 \/ (run.opts.skip_video /\ run.stats.rendered > 0)

\* C21: when the process started through main has ended, its exit code is 130
\* if the user interrupted run_pipeline; otherwise it is 0 exactly when at
\* least one video was created, or with skip_video at least one image was
\* rendered, and 1 in every other case (no such output, a configuration error,
\* an exception of the setup); failed posts and failed Drive uploads have no
\* part in it.
C21_ExitCodes ==
    (run.pc = "exited" /\ run.caller = "main") =>
        /\ run.exit_code \in {0, 1, 130}
        /\ run.exit_code = 130 <=> run.interrupted
        /\ ~run.interrupted => (run.exit_code = 0 <=> SomeOutput)

\* a run that ended with 0 although a post and a Drive upload had failed
C21_Witness ==
    /\ run.pc = "exited" /\ run.caller = "main" /\ ~run.interrupted
    /\ run.exit_code = 0
    /\ run.stats.post_failed > 0 /\ run.stats.drive_failed > 0
    /\ run.stats.failed > 0

\* the slide of that name of the call in work, once it is saved
SlidesNamed(name) == { g \in fs : g.path = Path(build.temp_path, name, -1) }

\* the label of an answer: what stands before the first ":", or all of it
\* when there is none, without the whitespace around it
LabelOf(answer) ==
    Strip(IF Contains(answer, COLON) THEN BeforeFirst(answer, COLON) ELSE answer)

\* C22: the answer slide shows the label of the answer only, cut down to one
\* character: for an answer with a non-empty label the text drawn has
\* length exactly one and is the first character of the label in upper case,
\* for an empty label nothing is drawn; and normalizing the text drawn again
\* gives the same text.
C22_AnswerLabelNormalized ==
    \A g \in SlidesNamed("slide3.png") :
        LET label == LabelOf(build.args.answer)
        IN  /\ label = << >> => g.text = << >>
            /\ label # << >> => Len(g.text) = 1 /\ g.text[1] = Upper(label)[1]
            /\ AnswerLetter(g.text) = g.text

\* the answer "aB:" with an empty description: the slide shows "A"
C22_Witness ==
    /\ build.args.answer = << 97, 66, COLON >>
    /\ \E g \in SlidesNamed("slide3.png") : g.text = << 65 >>

\* the question text needs the fallback: nothing is left of it after
\* stripping, or more than 50 characters
NeedsFallback(q) ==
    LET text == Strip(IF q.given THEN q.text ELSE << >>)
    IN  text = << >> \/ Len(text) > INTRO_MAX

\* C23: the intro text is a function of the question text: a stripped
\* text of 1 to 50 characters is shown itself, and two intro slides made
\* for the same question text, the fallback included, show the same text.
C23_IntroDeterministic ==
    /\ [] ((build.intro.made /\ ~NeedsFallback(build.intro.question_text)) =>
              build.intro.text = Strip(build.intro.question_text.text))
    /\ [][ (build.intro.made /\ build'.intro.question_text = build.intro.question_text) =>
              build'.intro.text = build.intro.text ]_vars

\* a non-empty string
NonEmptyString(v) == IsStr(v) /\ v.text # << >>

\* what the claim wants of a puzzle: correct_answer is one of the options,
\* 5 to 8 options that are non-empty strings, difficulty an integer in
\* 1..10, and id, question_text, grid_logic and explanation non-empty strings
Satisfies(r) ==
    /\ IsList(r.options)
    /\ Len(r.options.items) >= 5 /\ Len(r.options.items) <= 8
    /\ \A i \in 1..Len(r.options.items) : NonEmptyString(r.options.items[i])
    /\ IsStr(r.correct_answer)
    /\ \E i \in 1..Len(r.options.items) : r.options.items[i] = r.correct_answer
    /\ IsInt(r.difficulty) /\ r.difficulty.num >= 1 /\ r.difficulty.num <= 10
    /\ \A f \in {"id", "question_text", "grid_logic", "explanation"} : NonEmptyString(r[f])

\* validate_puzzle has been applied to gen.data
Validated == gen.verdict # NoVerdict

\* a returned Puzzle satisfies the conditions, and an answer that is a label
\* only has become the first option with that label
ReturnedSatisfies ==
    (Validated /\ ~gen.verdict.raised) =>
        /\ Satisfies(gen.verdict.puzzle)
        /\ \A f \in DOMAIN gen.data \ {"correct_answer"} : gen.verdict.puzzle[f] = gen.data[f]
        /\ LET answer == Strip(gen.data.correct_answer.text)
               items == gen.data.options.items
           IN  (Len(answer) = 1 /\ ~InList(answer, items)) =>
                  \E i \in 1..Len(items) :
                     /\ gen.verdict.puzzle.correct_answer = items[i]
                     /\ ExtractOptionLabel(items[i]) = Upper(answer)
                     /\ \A j \in 1..(i - 1) : ExtractOptionLabel(items[j]) # Upper(answer)

\* a record that satisfies the conditions is returned as it is
AcceptedUnchanged ==
    (Validated /\ Satisfies(gen.data)) =>
        ~gen.verdict.raised /\ gen.verdict.puzzle = gen.data

\* C24: validate_puzzle raises ValueError or returns a Puzzle in which
\* correct_answer is one of the options (a label-only answer replaced by the
\* first option with that label), there are 5 to 8 options, all non-empty
\* strings, difficulty is an integer in 1..10 and id, question_text,
\* grid_logic and explanation are non-empty strings; and a record that
\* satisfies all this already is returned with its fields unchanged.
C24_ValidatedOrRejected == ReturnedSatisfies /\ AcceptedUnchanged

\* how an attempt can fail
Failures == {"call error", "parse error", "TypeError", "validation error"}

\* the attempts made so far all failed
AllFailed(log) == \A k \in 1..Len(log) : log[k] \in Failures

\* One attempt is one call of the service; there are never more than
\* OPENAI_MAX_RETRIES of them; a new attempt is made only after failures; a
\* puzzle is returned by the first attempt that did not fail and is the one
\* validate_puzzle returned; None is returned after OPENAI_MAX_RETRIES
\* failures; there is no other way out of the call.
GenerateSafe ==
    /\ gen.pc \in {"idle", "call", "parse", "validate", "returned"}
    /\ gen.calls <= OPENAI_MAX_RETRIES
    /\ gen.pc = "call" => gen.calls = gen.attempt - 1 /\ Len(gen.log) = gen.calls
                          /\ AllFailed(gen.log)
    /\ gen.pc \in {"parse", "validate"} =>
          gen.calls = gen.attempt /\ Len(gen.log) = gen.calls - 1 /\ AllFailed(gen.log)
    /\ gen.pc = "returned" =>
          /\ gen.calls = Len(gen.log)
          /\ gen.returned \in {"puzzle", "None"}
          /\ gen.returned = "puzzle" =>
                /\ gen.log[Len(gen.log)] = "ok"
                /\ AllFailed(SubSeq(gen.log, 1, Len(gen.log) - 1))
                /\ ~gen.verdict.raised /\ gen.puzzle = gen.verdict.puzzle
                /\ gen.puzzle = validate_puzzle(gen.data).puzzle
          /\ gen.returned = "None" =>
                /\ Len(gen.log) = OPENAI_MAX_RETRIES
                /\ AllFailed(gen.log)
                /\ gen.puzzle = NoRecord

\* a call that has not returned can take a step
CanGoOn == gen.pc \in {"call", "parse", "validate"} => ENABLED NextGenerate

\* the steps a call can still take at most: three for each attempt left
\* (the call of the service, the parsing, the validation), none once it
\* has returned
StepsLeft(g) ==
    IF g.pc = "returned" THEN 0
    ELSE 3 * (OPENAI_MAX_RETRIES - g.attempt)
         + (CASE g.pc = "call" -> 3 [] g.pc = "parse" -> 2 [] g.pc = "validate" -> 1
              [] OTHER -> 0)

\* C28: generate_puzzle ends after at most OPENAI_MAX_RETRIES calls of the
\* service: a call that has not returned can always go on, every step brings
\* it nearer to the return, and it returns the puzzle of the first attempt
\* that parsed and validated (no call is made after it) or, every attempt
\* having failed by a call error, a parse error or a validation error, None;
\* it never raises.
C28_BoundedRetries ==
    /\ [] (GenerateSafe /\ CanGoOn)
    /\ [][gen.pc \notin {"idle", "returned"} => StepsLeft(gen)' < StepsLeft(gen)]_vars

\* a call that returned None after a call error and a validation error
C28_Witness ==
    /\ gen.pc = "returned" /\ gen.returned = "None"
    /\ gen.log = << "call error", "validation error" >>
    /\ gen.calls = OPENAI_MAX_RETRIES

\* the last element of a non-empty list
Last(q) == q[Len(q)]

\* the call of thread 1 has recorded its timestamp, which is the last of the
\* list of its poster
TimestampKept ==
    /\ init_log # << >> /\ Last(init_log).t = frame[1].now
    /\ last_init_calls[frame[1].self] # << >>
    /\ Last(last_init_calls[frame[1].self]) = frame[1].now

\* C26: last_init_calls changes only inside _rate_limit_check, the first part
\* of the initialize step: not in the init request itself, the upload or
\* get_post_status, whether they succeed or fail, not in query_creator_info,
\* and not in a post_video call that raises FileNotFoundError, which sends
\* no request either.  A post_video call that reaches the initialization
\* appends one timestamp, before its init request is sent, and the
\* timestamp is still the last of the list when the call ends.
C26_OnlyInitTouchesWindow ==
    [][ /\ last_init_calls' # last_init_calls =>
              pc[1] \in {"store_pruned", "store_pruned_again", "record"}
        /\ init_log' # init_log =>
              /\ pc[1] = "record" /\ reqs[1] = << >>
              /\ Len(init_log') = Len(init_log) + 1
              /\ last_init_calls'[frame[1].self]
                    = Append(last_init_calls[frame[1].self], frame[1].now)
        /\ (pc[1] = "record" /\ pc'[1] # "record") => init_log' # init_log
        /\ Len(init_log') <= ncalls'[1]
        /\ pc[1] \in {"init", "upload", "status"} =>
              TimestampKept /\ TimestampKept' /\ last_init_calls' = last_init_calls
        /\ (pc[1] = "idle" /\ pc'[1] = "done") =>
              /\ last_init_calls' = last_init_calls
              /\ result'[1].exc = "FileNotFoundError" => reqs'[1] = << >>
      ]_vars

\* a call whose init request failed: its timestamp is in the list
C26_Witness ==
    /\ pc[1] = "done" /\ result[1].outcome = "raised"
    /\ Len(reqs[1]) = 1 /\ reqs[1][1].kind = "init"
    /\ TimestampKept

\* the place of a call in the order render, encode, publish, secondary upload
Rank(op) ==
    CASE op = "render" -> 1 [] op = "build_video" -> 2 [] op = "post_video" -> 3
      [] op = "upload_video" -> 4

\* the positions of the calls of an item with this operation and outcome
CallsOf(it, op, outcomes) ==
    { j \in 1..Len(it.calls) : it.calls[j].op = op /\ it.calls[j].outcome \in outcomes }

AnyOutcome == {"returned", "raised", "failed"}

\* the calls made for one puzzle are in the order render, build_video,
\* post_video, upload_video, each at most once; build_video follows a render
\* that returned, post_video follows a build_video that returned, for the
\* same puzzle, and gets the path build_video returned
InOrder(it) ==
    LET c == it.calls
    IN  /\ \A i, j \in 1..Len(c) : i < j => Rank(c[i].op) < Rank(c[j].op)
        /\ \A j \in CallsOf(it, "build_video", AnyOutcome) :
               j > 1 /\ c[j - 1] = Call("render", NoPath, "returned")
        /\ \A j \in CallsOf(it, "post_video", AnyOutcome) :
               /\ j > 1
               /\ c[j - 1] = Call("build_video", get_video_path(it.id), "returned")
               /\ c[j].path = c[j - 1].path
        /\ \A j \in CallsOf(it, "upload_video", AnyOutcome) :
               CallsOf(it, "build_video", {"returned"}) # {}

\* rendering or encoding failed for the puzzle
RenderOrEncodeFailed(it) ==
    \/ CallsOf(it, "render", {"raised"}) # {}
    \/ CallsOf(it, "build_video", {"raised"}) # {}
    \/ it.failed /\ it.at \in {"render", "save_image", "build_video"}

\* C25: for every puzzle the calls are made in the order render, encode,
\* publish: post_video is called only after build_video returned for the
\* same puzzle, and with the path it returned; a puzzle whose rendering or
\* encoding failed gets no post_video and no Drive upload; and when the
\* Drive upload is requested, a puzzle whose post failed has still had its
\* upload_video call when its iteration has ended.
C25_RenderEncodePublish ==
    /\ \A k \in 1..Len(Processed) :
          /\ InOrder(Processed[k])
          /\ RenderOrEncodeFailed(Processed[k]) =>
                /\ CallsOf(Processed[k], "post_video", AnyOutcome) = {}
                /\ CallsOf(Processed[k], "upload_video", AnyOutcome) = {}
    /\ \A k \in 1..Len(run.done) :
          (run.opts.upload_to_drive /\ run.done[k].post = "failed") =>
             CallsOf(run.done[k], "upload_video", AnyOutcome) # {}

\* a run whose first puzzle failed in build_video and whose second puzzle
\* was uploaded to Drive after post_video raised
C25_Witness ==
    /\ Len(run.done) >= 2
    /\ run.done[1].calls = << Call("render", NoPath, "returned"),
                              Call("build_video", get_video_path(run.done[1].id), "raised") >>
    /\ run.done[2].calls = << Call("render", NoPath, "returned"),
                              Call("build_video", get_video_path(run.done[2].id), "returned"),
                              Call("post_video", get_video_path(run.done[2].id), "raised"),
                              Call("upload_video", get_video_path(run.done[2].id), "returned") >>

\* the counters never overtake each other
CountersOrdered ==
    /\ run.stats.posted + run.stats.post_failed <= run.stats.videos_created
    /\ run.stats.videos_created <= run.stats.rendered
    /\ run.stats.rendered <= run.stats.generated
    /\ run.stats.generated <= run.count

\* without skip_video a returned run has counted every generated puzzle in
\* exactly one of videos_created and failed
CountedOnce ==
    (run.pc = "returned" /\ ~run.opts.skip_video) =>
        run.stats.videos_created + run.stats.failed = run.stats.generated

\* C29: at every point of run_pipeline posted + post_failed <=
\* videos_created <= rendered <= generated <= count, and when run_pipeline
\* returns without skip_video, videos_created + failed = generated.
C29_CountersAccount == CountersOrdered /\ CountedOnce

PostVideoReturned(it) == CallsOf(it, "post_video", {"returned"}) # {}

PostVideoRaised(it) == CallsOf(it, "post_video", {"raised"}) # {}

\* C30: when run_pipeline has returned, posted is the number of post_video
\* calls that returned and post_failed the number that raised, and no
\* puzzle whose post_video call returned is counted in post_failed.
C30_PublishCounters ==
    run.pc = "returned" =>
        /\ run.stats.posted = HowMany(run.done, PostVideoReturned)
        /\ run.stats.post_failed = HowMany(run.done, PostVideoRaised)
        /\ \A k \in 1..Len(run.done) :
              PostVideoReturned(run.done[k]) => run.done[k].post # "failed"

\* the numbers N that had a file puzzle_N.* when the run looked
IndexesBefore == { f.path.index : f \in run.before }

\* get_next_puzzle_index and generate_puzzles: the start index is above the
\* index of every file found (1 when there was none), the puzzle requested
\* at position i has the index start_index + i, the indexes of the run
\* rise, and none of them had a file
FreshIds ==
    run.pc \in {"returned"} \cup LoopPositions =>
        /\ \A n \in IndexesBefore : run.start_index > n
        /\ IndexesBefore = {} => run.start_index = 1
        /\ Len(run.puzzles) = Cardinality(run.succeeded)
        /\ \A i \in run.succeeded : \E k \in 1..Len(run.puzzles) :
              run.puzzles[k] = run.start_index + i
        /\ \A j, k \in 1..Len(run.puzzles) : j < k => run.puzzles[j] < run.puzzles[k]
        /\ \A k \in 1..Len(run.puzzles) : run.puzzles[k] \notin IndexesBefore

\* C27: in every run of a sequence of runs on one output directory,
\* get_next_puzzle_index returns an index above that of every puzzle_N file
\* present in images, videos and metadata (1 when there is none), the
\* puzzle requested at position i gets the index start_index + i whether
\* or not the generations before it failed, the IDs of the run are pairwise
\* distinct, and every image, video or metadata file a step writes is the
\* file of the puzzle in work, under an index that had no file when the
\* run began.
C27_IdsNeverReused ==
    /\ [] FreshIds
    /\ [][ \A f \in OutputFiles(fs') \ OutputFiles(fs) :
              f.path.index = run.item.id /\ f.path.index \notin IndexesBefore ]_vars

\* the second run on a directory in which only puzzle 2 of the first run
\* left files: its second request, the first having failed, is puzzle 4
C27_Witness ==
    /\ run.runs = 1 /\ run.pc = "returned"
    /\ IndexesBefore = {2}
    /\ run.start_index = 3 /\ run.succeeded = {1} /\ run.puzzles = << 4 >>
    /\ Exists(fs, Path(IMAGES_DIR, "puzzle.png", 4))

====
